---- MODULE Spec2Model ----
(***************************************************************************)
(* A model of github.com/gowool/menu: the item tree (item.go, option.go),  *)
(* the voting matcher with its cache and read/write lock (matcher.go,      *)
(* voter.go) and the list renderer with its options (package renderer).    *)
(*                                                                         *)
(* Pointers: an *Item is the index of the item in the heap `items`, and    *)
(* NilItem is the nil *Item.  A *bool or *int is a sequence: Nil (empty)   *)
(* for the nil pointer, <<v>> for a pointer to the value v.                *)
(***************************************************************************)
EXTENDS Integers, Sequences, FiniteSets, TLC

\* ------------------------------------------------------------------ bounds
MaxItems == 3
MaxFlat == 2
MaxVoters == 2
MaxTree == 3
MaxDepth == 2
MaxThreads == 2
MaxConc == 2
MaxMenu == 3
MaxFamily == 4
MaxCopy == 2
MaxHeap == 4
MaxOld == 2
MaxOptions == 3
PosBits == 3
MaxSiblings == 3
MaxGiven == 2

\* --------------------------------------------------------------- constants
Nil == <<>>
NilItem == 0
NoError == "nil"
ErrItemBelongsToAnotherMenu == "ErrItemBelongsToAnotherMenu"

Names == {"a"}
Ptr(v) == <<v>>
Deref(p) == p[1]

\* The element of a one-element set. A result is named by binding it in such
\* a set, {e(r) : r \in {f(x)}}, so that f(x) is written and evaluated once.
Only(S) == CHOOSE x \in S : TRUE

VARIABLES
  items,   \* the heap of items: items[i] is the Item that pointer i refers to
  ret,     \* the last call: [op, item, arg, val, err]
  voters,  \* CoreMatcher.voters: the registered voters, in registration order
  cache,   \* CoreMatcher.cache: a map from item pointers to booleans
  effect,  \* what the last matcher call did: voters consulted, cache reads/writes
  first,   \* per item, what its first unforced IsCurrent since the last Clear returned
  votes,   \* per item, what each voter answers for it under the request context
  mu,      \* CoreMatcher.mu: who holds the read/write lock, and the waiting writer
  pc,      \* per goroutine, the statement of IsCurrent / Clear it is about to run
  loc,     \* per goroutine, the locals of its call
  ropts    \* ListRenderer.options: the options the renderer was built with

matchVars == <<voters, cache, effect, first, votes>>
concVars == <<mu, pc, loc>>
renderVars == <<ropts>>
otherVars == <<concVars, renderVars>>
vars == <<items, ret, voters, cache, effect, first, votes, mu, pc, loc, ropts>>

EmptyMap == <<>>

\* A value of type any, as the maps of an item and the Extras of the Options
\* hold them: the dynamic type with the value.  A type assertion x.(T) panics
\* when the dynamic type is not T.
AnyString(s) == <<"string", s>>
AnyBool(b) == <<"bool", b>>
IsString(x) == x[1] = "string"
IsBool(x) == x[1] = "bool"
ValueOf(x) == x[2]
PanicNotString == "panic: interface conversion: interface {} is not string"
PanicNotBool == "panic: interface conversion: interface {} is not bool"

\* How a goroutine ends whose recursion never returns: its stack outgrows the
\* limit, which is fatal.
StackOverflow == "fatal error: stack overflow"
NoEffect == [consulted |-> <<>>, reads |-> 0, writes |-> 0]

\* ------------------------------------------------------------ the item tree

\* The five maps of an item: Attributes, LinkAttributes, ChildrenAttributes,
\* LabelAttributes, Extras.
BagNames ==
  {"Attributes", "LinkAttributes", "ChildrenAttributes", "LabelAttributes",
   "Extras"}

\* The item literal of NewItem, allocated at address at: Display and
\* DisplayChildren set, five empty maps, the rest zero.
\* A map is a reference.  Store[b] is a map that lives at this address, Nil
\* for the nil map, and Maps[b] is the address of the item in whose Store the
\* map lives that this item's field b refers to (its own here): two items
\* share a map when their Maps[b] agree.
\* Current is a pointer to a bool.  The field holds what the pointer leads to
\* (Nil for the nil pointer), and Cell tells the pointers apart: the items
\* that hold one and the same pointer carry the same Cell, the least of their
\* addresses, and a write through the pointer changes Current in all of them.
DefaultItem(name, at) ==
  [Name |-> name, URI |-> "", Label |-> "", Position |-> 0,
   DisplayChildren |-> TRUE, Display |-> TRUE, Current |-> Nil, Cell |-> NilItem,
   Parent |-> NilItem, Children |-> <<>>,
   Maps |-> [b \in BagNames |-> at], Store |-> [b \in BagNames |-> Ptr(EmptyMap)]]

\* The reference in field b of item i: Ptr(map), or Nil for the nil map.
BagRef(h, i, b) == h[h[i].Maps[b]].Store[b]

\* i.Attributes, i.Extras, ... as read: the entries of the map the item's
\* reference leads to; the nil map reads as the empty map.
Bag(h, i, b) == IF BagRef(h, i, b) = Nil THEN EmptyMap ELSE Deref(BagRef(h, i, b))

\* The run-time panic of a write to the nil map.
PanicNilMap == "panic: assignment to entry in nil map"

\* item.<b>[name] = value: a write into the map the reference leads to, seen
\* by every item that shares it.
PutBag(h, i, b, name, value) ==
  IF BagRef(h, i, b) = Nil THEN [h |-> h, err |-> PanicNilMap]
  ELSE [h |-> [h EXCEPT ![h[i].Maps[b]].Store[b] = Ptr((name :> value) @@ Deref(@))],
        err |-> NoError]

\* item.<b> = maps.Clone(m), m a map reference: item i refers to a new map
\* (nil when m is nil) that no other item shares.  The items that shared i's
\* old map keep it; when it lived at i it moves to the least of their
\* addresses.
SetBag(h, i, b, m) ==
  LET new == IF m = Nil THEN Nil ELSE Ptr(Deref(m))
      rest == {j \in DOMAIN h : j # i /\ h[j].Maps[b] = h[i].Maps[b]}
  IN IF h[i].Maps[b] # i \/ rest = {}
     THEN [h EXCEPT ![i].Maps[b] = i, ![i].Store[b] = new]
     ELSE LET keep == CHOOSE j \in rest : \A k \in rest : j <= k
          IN [j \in DOMAIN h |->
                IF j = i THEN [h[j] EXCEPT !.Store[b] = new]
                ELSE IF j = keep
                THEN [h[j] EXCEPT !.Maps[b] = keep, !.Store[b] = h[i].Store[b]]
                ELSE IF j \in rest THEN [h[j] EXCEPT !.Maps[b] = keep]
                ELSE h[j]]

\* The items that hold the pointer item i holds in Current (i among them);
\* a nil pointer is shared with no item.
CellMates(h, i) ==
  {j \in DOMAIN h : h[i].Current # Nil /\ h[j].Current # Nil /\ h[j].Cell = h[i].Cell}

\* i.Current = p for a p no other item holds: nil, or the address of a new
\* bool (Ptr(v)).  The items that shared i's old pointer keep it.
SetCurrent(h, i, p) ==
  LET rest == CellMates(h, i) \ {i}
  IN [j \in DOMAIN h |->
        IF j = i
        THEN [h[j] EXCEPT !.Current = p, !.Cell = IF p = Nil THEN NilItem ELSE i]
        ELSE IF j \in rest
        THEN [h[j] EXCEPT !.Cell = CHOOSE k \in rest : \A l \in rest : k <= l]
        ELSE h[j]]

\* *i.Current = v: the write through the pointer, seen by every item that
\* holds it.
WriteCurrent(h, i, v) ==
  [j \in DOMAIN h |->
     IF j \in CellMates(h, i) THEN [h[j] EXCEPT !.Current = Ptr(v)] ELSE h[j]]

\* Options of package menu, as records [kind, v].
WithDisplay(b) == [kind |-> "WithDisplay", v |-> b]
WithDisplayChildren(b) == [kind |-> "WithDisplayChildren", v |-> b]
WithAttribute(name, value) == [kind |-> "WithAttribute", k |-> name, v |-> value]
WithExtra(name, value) == [kind |-> "WithExtra", k |-> name, v |-> value]
WithCurrent(current) == [kind |-> "WithCurrent", p |-> current]
WithURI(uri) == [kind |-> "WithURI", uri |-> uri]
WithLabel(label) == [kind |-> "WithLabel", label |-> label]
\* The options that replace a map take a map reference: Nil, or Ptr(map).
WithAttributes(attributes) == [kind |-> "WithAttributes", m |-> attributes]
WithLinkAttributes(attributes) == [kind |-> "WithLinkAttributes", m |-> attributes]
WithLinkAttribute(name, value) == [kind |-> "WithLinkAttribute", k |-> name, v |-> value]
WithChildrenAttributes(attributes) ==
  [kind |-> "WithChildrenAttributes", m |-> attributes]
WithChildrenAttribute(name, value) ==
  [kind |-> "WithChildrenAttribute", k |-> name, v |-> value]
WithLabelAttributes(attributes) == [kind |-> "WithLabelAttributes", m |-> attributes]
WithLabelAttribute(name, value) ==
  [kind |-> "WithLabelAttribute", k |-> name, v |-> value]
WithExtras(extras) == [kind |-> "WithExtras", m |-> extras]
WithSafeLabel(safeLabel) == WithExtra("safe_label", AnyBool(safeLabel))
WithParent(parent) == [kind |-> "WithParent", parent |-> parent]
WithPosition(position) == [kind |-> "WithPosition", n |-> position]
WithChild(child) == [kind |-> "WithChild", c |-> child]
WithChildren(children) == [kind |-> "WithChildren", cs |-> children]
\* An Option written by the caller that returns the error e.
Failing(e) == [kind |-> "Failing", e |-> e]

\* What a call yields in place of an error when it does not return: the
\* run-time panic of a write through a nil pointer.
PanicNilDereference == "panic: invalid memory address or nil pointer dereference"

\* i.AddChild(child) for a child that is an *Item.
AddChildNoCheck(h, i, child) ==
  [h |-> [h EXCEPT ![child].Parent = i,
                   ![i].Children = Append(h[i].Children, child)],
   item |-> child, err |-> NoError]

AddChild(h, i, child) ==
  IF h[child].Parent # NilItem
  THEN [h |-> h, item |-> NilItem, err |-> ErrItemBelongsToAnotherMenu]
  ELSE [h |-> [h EXCEPT ![child].Parent = i,
                        ![i].Children = Append(h[i].Children, child)],
        item |-> child, err |-> NoError]

\* WithChildren(children): the option's loop over children[k..], which stops
\* at the first child AddChild refuses.
RECURSIVE AddChildren(_, _, _, _)
AddChildren(h, i, children, k) ==
  IF k > Len(children) THEN [h |-> h, err |-> NoError]
  ELSE Only({IF r.err # NoError THEN [h |-> r.h, err |-> r.err]
             ELSE AddChildren(r.h, i, children, k + 1) :
             r \in {AddChild(h, i, children[k])}})

\* option(item): the heap after the option ran on item i, and the option's error.
ApplyOption(h, i, opt) ==
  CASE opt.kind = "WithDisplay" ->
         [h |-> [h EXCEPT ![i].Display = opt.v], err |-> NoError]
    [] opt.kind = "WithDisplayChildren" ->
         [h |-> [h EXCEPT ![i].DisplayChildren = opt.v], err |-> NoError]
    [] opt.kind = "WithAttribute" -> PutBag(h, i, "Attributes", opt.k, opt.v)
    [] opt.kind = "WithLinkAttribute" -> PutBag(h, i, "LinkAttributes", opt.k, opt.v)
    [] opt.kind = "WithChildrenAttribute" ->
         PutBag(h, i, "ChildrenAttributes", opt.k, opt.v)
    [] opt.kind = "WithLabelAttribute" -> PutBag(h, i, "LabelAttributes", opt.k, opt.v)
    [] opt.kind = "WithExtra" -> PutBag(h, i, "Extras", opt.k, opt.v)
    [] opt.kind = "WithAttributes" ->
         [h |-> SetBag(h, i, "Attributes", opt.m), err |-> NoError]
    [] opt.kind = "WithLinkAttributes" ->
         [h |-> SetBag(h, i, "LinkAttributes", opt.m), err |-> NoError]
    [] opt.kind = "WithChildrenAttributes" ->
         [h |-> SetBag(h, i, "ChildrenAttributes", opt.m), err |-> NoError]
    [] opt.kind = "WithLabelAttributes" ->
         [h |-> SetBag(h, i, "LabelAttributes", opt.m), err |-> NoError]
    [] opt.kind = "WithExtras" ->
         [h |-> SetBag(h, i, "Extras", opt.m), err |-> NoError]
    [] opt.kind = "WithCurrent" ->
         IF opt.p = Nil THEN [h |-> SetCurrent(h, i, Nil), err |-> NoError]
         ELSE IF h[i].Current = Nil THEN [h |-> h, err |-> PanicNilDereference]
         ELSE [h |-> WriteCurrent(h, i, Deref(opt.p)), err |-> NoError]
    [] opt.kind = "WithParent" ->
         [h |-> [h EXCEPT ![i].Parent = opt.parent], err |-> NoError]
    [] opt.kind = "WithLabel" ->
         [h |-> [h EXCEPT ![i].Label = opt.label], err |-> NoError]
    [] opt.kind = "WithChild" ->
         [h |-> AddChild(h, i, opt.c).h, err |-> AddChild(h, i, opt.c).err]
    [] opt.kind = "WithChildren" ->
         AddChildren([h EXCEPT ![i].Children = <<>>], i, opt.cs, 1)
    [] opt.kind = "Failing" -> [h |-> h, err |-> opt.e]
    [] opt.kind = "WithURI" ->
         [h |-> [h EXCEPT ![i].URI = opt.uri], err |-> NoError]
    [] opt.kind = "WithPosition" ->
         [h |-> [h EXCEPT ![i].Position = opt.n], err |-> NoError]

\* The loop of NewItem over options[k..]: stops at the first failing option.
RECURSIVE ApplyOptions(_, _, _, _)
ApplyOptions(h, i, options, k) ==
  IF k > Len(options) THEN [h |-> h, err |-> NoError]
  ELSE LET r == ApplyOption(h, i, options[k])
       IN IF r.err # NoError THEN r
          ELSE ApplyOptions(r.h, i, options, k + 1)

\* NewItem(name, options...): allocates the item, runs the options in order;
\* returns (nil, err) when one fails.
NewItem(h, name, options) ==
  LET i == Len(h) + 1
      r == ApplyOptions(Append(h, DefaultItem(name, i)), i, options, 1)
  IN [h |-> r.h,
      item |-> IF r.err = NoError THEN i ELSE NilItem,
      err |-> r.err]

\* i.AddChild(value, options...) for a value that is not an *Item: a new item
\* named after the value is made and attached.  When NewItem fails nothing is
\* attached, and what its options did before the failure stays done.
AddChildValue(h, i, name, options) ==
  LET n == NewItem(h, name, options)
  IN IF n.err # NoError THEN [h |-> n.h, item |-> NilItem, err |-> n.err]
     ELSE [h |-> [n.h EXCEPT ![n.item].Parent = i,
                             ![i].Children = Append(n.h[i].Children, n.item)],
           item |-> n.item, err |-> NoError]

\* The option lists the tree-building calls are given.
OptionLists == {<<>>, <<WithDisplay(FALSE)>>}

Ret(op, item, arg, val, err) ==
  [op |-> op, item |-> item, arg |-> arg, val |-> val, err |-> err]

\* ------------------------------------------------- Spec: building the tree

DoNewItem(name, options) ==
  /\ Len(items) < MaxItems
  /\ LET r == NewItem(items, name, options)
     IN /\ items' = r.h
        /\ ret' = Ret("NewItem", NilItem, NilItem, r.item, r.err)
  /\ UNCHANGED <<matchVars, otherVars>>

DoAddChild(p, c) ==
  LET r == AddChild(items, p, c)
  IN /\ items' = r.h
     /\ ret' = Ret("AddChild", p, c, r.item, r.err)
     /\ UNCHANGED <<matchVars, otherVars>>

DoAddChildValue(p, name, options) ==
  /\ Len(items) < MaxItems
  /\ LET r == AddChildValue(items, p, name, options)
     IN /\ items' = r.h
        /\ ret' = Ret("AddChildValue", p, NilItem, r.item, r.err)
  /\ UNCHANGED <<matchVars, otherVars>>

\* sync.RWMutex, unlocked: no reader, no writer, no Lock waiting for readers.
NoThread == 0
Unlocked == [readers |-> {}, writer |-> NoThread, pending |-> NoThread]
IdleLocals ==
  [op |-> "idle", root |-> NilItem, item |-> NilItem, current |-> FALSE,
   stack |-> <<>>, depth |-> Nil]

\* No goroutine is running a matcher call.
ConcIdle ==
  /\ mu = Unlocked
  /\ pc = <<>>
  /\ loc = <<>>

\* No renderer has been built.
RenderIdle == ropts = Nil

OthersIdle == ConcIdle /\ RenderIdle

MatcherIdle ==
  /\ voters = <<>>
  /\ cache = EmptyMap
  /\ effect = NoEffect
  /\ first = EmptyMap
  /\ votes = EmptyMap

Init ==
  /\ items = <<>>
  /\ ret = Ret("init", NilItem, NilItem, NilItem, NoError)
  /\ MatcherIdle
  /\ OthersIdle

Next ==
  \/ \E name \in Names, options \in OptionLists : DoNewItem(name, options)
  \/ \E p \in DOMAIN items, c \in DOMAIN items : DoAddChild(p, c)
  \/ \E p \in DOMAIN items, name \in Names, options \in OptionLists :
       DoAddChildValue(p, name, options)

Spec == Init /\ [][Next]_vars


\* ------------------------------------------------------------- the matcher

\* What Voter.MatchItem may return: nil (abstain), or a pointer to a boolean.
Tri == {Nil, Ptr(TRUE), Ptr(FALSE)}

\* The voter loop of IsCurrent from voters[k] on. ans[v] is what voter v's
\* MatchItem(ctx, item) returns in this call; current starts as false.
\* (the loop without its break: the last voter that does not abstain decides)
RECURSIVE RunVotersNoBreak(_, _, _)
RunVotersNoBreak(vs, ans, k) ==
  IF k > Len(vs) THEN [current |-> FALSE, consulted |-> <<>>]
  ELSE LET r == RunVotersNoBreak(vs, ans, k + 1)
       IN [current |-> IF \E j \in k + 1 .. Len(vs) : ans[vs[j]] # Nil THEN r.current
                       ELSE IF ans[vs[k]] # Nil THEN Deref(ans[vs[k]])
                       ELSE FALSE,
           consulted |-> <<vs[k]>> \o r.consulted]

RECURSIVE RunVoters(_, _, _)
RunVoters(vs, ans, k) ==
  IF k > Len(vs) THEN [current |-> FALSE, consulted |-> <<>>]
  ELSE IF ans[vs[k]] # Nil
       THEN [current |-> Deref(ans[vs[k]]), consulted |-> <<vs[k]>>]
       ELSE LET r == RunVoters(vs, ans, k + 1)
            IN [current |-> r.current, consulted |-> <<vs[k]>> \o r.consulted]

\* m.IsCurrent(ctx, item) run without interleaving, on heap h, cache c and
\* voters vs: the value returned, the cache afterwards, and what the call did.
IsCurrentCacheFirst(h, c, vs, item, ans) ==
  IF item \in DOMAIN c
  THEN [val |-> c[item], cache |-> c, consulted |-> <<>>, reads |-> 1, writes |-> 0]
  ELSE IF h[item].Current # Nil
  THEN [val |-> Deref(h[item].Current), cache |-> c,
        consulted |-> <<>>, reads |-> 1, writes |-> 0]
  ELSE LET v == RunVoters(vs, ans, 1)
       IN [val |-> v.current, cache |-> (item :> v.current) @@ c,
           consulted |-> v.consulted, reads |-> 1, writes |-> 1]

IsCurrentNoStore(h, c, vs, item, ans) ==
  IF h[item].Current # Nil
  THEN [val |-> Deref(h[item].Current), cache |-> c,
        consulted |-> <<>>, reads |-> 0, writes |-> 0]
  ELSE IF item \in DOMAIN c
  THEN [val |-> c[item], cache |-> c, consulted |-> <<>>, reads |-> 1, writes |-> 0]
  ELSE LET v == RunVoters(vs, ans, 1)
       IN [val |-> v.current, cache |-> c,
           consulted |-> v.consulted, reads |-> 1, writes |-> 0]

IsCurrent(h, c, vs, item, ans) ==
  IF h[item].Current # Nil
  THEN [val |-> Deref(h[item].Current), cache |-> c,
        consulted |-> <<>>, reads |-> 0, writes |-> 0]
  ELSE IF item \in DOMAIN c
  THEN [val |-> c[item], cache |-> c, consulted |-> <<>>, reads |-> 1, writes |-> 0]
  ELSE Only({[val |-> v.current, cache |-> (item :> v.current) @@ c,
              consulted |-> v.consulted, reads |-> 1, writes |-> 1] :
             v \in {RunVoters(vs, ans, 1)}})

\* m.IsAncestor(ctx, item, depth) run without interleaving. depth is the
\* shared counter (Nil for a nil pointer) and comes back as the call left it;
\* calls counts the invocations that went on to inspect children. lvl is the
\* nesting of the recursion: with a nil depth, a nesting deeper than the heap
\* has items means an item is being searched below itself, and the recursion
\* of the code never returns (diverged).
RECURSIVE IsAncestor(_, _, _, _, _, _, _)
RECURSIVE AncestorLoop(_, _, _, _, _, _, _, _)
RECURSIVE IsAncestorSelf(_, _, _, _, _, _, _)
RECURSIVE AncestorLoopSelf(_, _, _, _, _, _, _, _)
RECURSIVE AncestorLoopPerPath(_, _, _, _, _, _, _, _)
RECURSIVE IsAncestorByTwo(_, _, _, _, _, _, _)

\* (a search in which every child gets the budget its parent's loop started
\* with, a limit per path instead of one counter for the whole search)
AncestorLoopPerPath(h, c, vs, vt, item, k, depth, lvl) ==
  IF k > Len(h[item].Children)
  THEN [val |-> FALSE, cache |-> c, depth |-> depth, diverged |-> FALSE, calls |-> 0]
  ELSE Only({
    IF r1.val
    THEN [val |-> TRUE, cache |-> r1.cache, depth |-> depth,
          diverged |-> FALSE, calls |-> 0]
    ELSE Only({
      IF r2.diverged \/ r2.val THEN [r2 EXCEPT !.depth = depth]
      ELSE Only({[r3 EXCEPT !.calls = r2.calls + r3.calls] :
                 r3 \in {AncestorLoopPerPath(h, r2.cache, vs, vt, item, k + 1,
                                             depth, lvl)}}) :
      r2 \in {IsAncestor(h, r1.cache, vs, vt, h[item].Children[k], depth, lvl + 1)}}) :
    r1 \in {IsCurrent(h, c, vs, h[item].Children[k], vt[h[item].Children[k]])}})

AncestorLoop(h, c, vs, vt, item, k, depth, lvl) ==
  IF k > Len(h[item].Children)
  THEN [val |-> FALSE, cache |-> c, depth |-> depth, diverged |-> FALSE, calls |-> 0]
  ELSE Only({
    IF r1.val
    THEN [val |-> TRUE, cache |-> r1.cache, depth |-> depth,
          diverged |-> FALSE, calls |-> 0]
    ELSE Only({
      IF r2.diverged \/ r2.val THEN r2
      ELSE Only({[r3 EXCEPT !.calls = r2.calls + r3.calls] :
                 r3 \in {AncestorLoop(h, r2.cache, vs, vt, item, k + 1,
                                      r2.depth, lvl)}}) :
      r2 \in {IsAncestor(h, r1.cache, vs, vt, h[item].Children[k], depth, lvl + 1)}}) :
    r1 \in {IsCurrent(h, c, vs, h[item].Children[k], vt[h[item].Children[k]])}})

\* (a search that also asks IsCurrent of the item itself)
AncestorLoopSelf(h, c, vs, vt, item, k, depth, lvl) ==
  IF k > Len(h[item].Children)
  THEN [val |-> FALSE, cache |-> c, depth |-> depth, diverged |-> FALSE, calls |-> 0]
  ELSE LET child == h[item].Children[k]
           r1 == IsCurrent(h, c, vs, child, vt[child])
       IN IF r1.val
          THEN [val |-> TRUE, cache |-> r1.cache, depth |-> depth,
                diverged |-> FALSE, calls |-> 0]
          ELSE LET r2 == IsAncestorSelf(h, r1.cache, vs, vt, child, depth, lvl + 1)
               IN IF r2.diverged \/ r2.val THEN r2
                  ELSE LET r3 == AncestorLoopSelf(h, r2.cache, vs, vt, item, k + 1,
                                                  r2.depth, lvl)
                       IN [r3 EXCEPT !.calls = r2.calls + r3.calls]

IsAncestorSelf(h, c, vs, vt, item, depth, lvl) ==
  IF depth # Nil /\ Deref(depth) = 0
  THEN [val |-> FALSE, cache |-> c, depth |-> depth, diverged |-> FALSE, calls |-> 0]
  ELSE IF depth = Nil /\ lvl > Len(h)
  THEN [val |-> FALSE, cache |-> c, depth |-> depth, diverged |-> TRUE, calls |-> 0]
  ELSE LET d1 == IF depth # Nil THEN Ptr(Deref(depth) - 1) ELSE Nil
           r0 == IsCurrent(h, c, vs, item, vt[item])
           r == AncestorLoopSelf(h, r0.cache, vs, vt, item, 1, d1, lvl)
       IN IF r0.val
          THEN [val |-> TRUE, cache |-> r0.cache, depth |-> d1,
                diverged |-> FALSE, calls |-> 1]
          ELSE [r EXCEPT !.calls = r.calls + 1]

\* (a search that takes 2 off the counter where the code takes 1)
IsAncestorByTwo(h, c, vs, vt, item, depth, lvl) ==
  IF depth # Nil /\ Deref(depth) = 0
  THEN [val |-> FALSE, cache |-> c, depth |-> depth, diverged |-> FALSE, calls |-> 0]
  ELSE IF depth = Nil /\ lvl > Len(h)
  THEN [val |-> FALSE, cache |-> c, depth |-> depth, diverged |-> TRUE, calls |-> 0]
  ELSE Only({[r EXCEPT !.calls = r.calls + 1] :
             r \in {AncestorLoop(h, c, vs, vt, item, 1,
                                 IF depth # Nil THEN Ptr(Deref(depth) - 2) ELSE Nil,
                                 lvl)}})

IsAncestor(h, c, vs, vt, item, depth, lvl) ==
  IF depth # Nil /\ Deref(depth) = 0
  THEN [val |-> FALSE, cache |-> c, depth |-> depth, diverged |-> FALSE, calls |-> 0]
  ELSE IF depth = Nil /\ lvl > Len(h)
  THEN [val |-> FALSE, cache |-> c, depth |-> depth, diverged |-> TRUE, calls |-> 0]
  ELSE Only({[r EXCEPT !.calls = r.calls + 1] :
             r \in {AncestorLoop(h, c, vs, vt, item, 1,
                                 IF depth # Nil THEN Ptr(Deref(depth) - 1) ELSE Nil,
                                 lvl)}})

\* (a Clear that keeps the map)
ClearKeeps(c) == c

\* m.Clear(): the cache is replaced by an empty map.
Clear(c) == EmptyMap

\* item.SetIsCurrent(), item.SetNotCurrent(), and WithCurrent(nil) applied to
\* an item: the forced flag becomes &true, &false, nil.
SetIsCurrent(h, i) == SetCurrent(h, i, Ptr(TRUE))
SetNotCurrent(h, i) == SetCurrent(h, i, Ptr(FALSE))
WithCurrentNil(h, i) == SetCurrent(h, i, Nil)

\* The heap after n calls NewItem(name) with no options: n roots.
RECURSIVE Roots(_)
Roots(n) == IF n = 0 THEN <<>> ELSE NewItem(Roots(n - 1), "a", <<>>).h

\* NewCoreMatcher(voters...): n voters, named 1..n in registration order.
NewCoreMatcher(n) == [k \in 1 .. n |-> k]

\* ------------------------- SpecCurrent: IsCurrent, Clear and forced flags,
\* one call at a time, with voters whose answers may change from call to call

CallIsCurrent(i, ans) ==
  LET r == IsCurrent(items, cache, voters, i, ans)
  IN /\ cache' = r.cache
     /\ ret' = Ret("IsCurrent", i, ans, r.val, NoError)
     /\ effect' = [consulted |-> r.consulted, reads |-> r.reads, writes |-> r.writes]
     /\ first' = IF items[i].Current = Nil /\ i \notin DOMAIN first
                 THEN (i :> r.val) @@ first ELSE first
     /\ UNCHANGED <<items, voters, votes, otherVars>>

CallClear ==
  /\ cache' = Clear(cache)
  /\ ret' = Ret("Clear", NilItem, Nil, FALSE, NoError)
  /\ effect' = NoEffect
  /\ first' = EmptyMap
  /\ UNCHANGED <<items, voters, votes, otherVars>>

CallSetIsCurrent(i) ==
  /\ items' = SetIsCurrent(items, i)
  /\ ret' = Ret("SetIsCurrent", i, Nil, FALSE, NoError)
  /\ effect' = NoEffect
  /\ UNCHANGED <<voters, cache, first, votes, otherVars>>

CallSetNotCurrent(i) ==
  /\ items' = SetNotCurrent(items, i)
  /\ ret' = Ret("SetNotCurrent", i, Nil, FALSE, NoError)
  /\ effect' = NoEffect
  /\ UNCHANGED <<voters, cache, first, votes, otherVars>>

CallWithCurrentNil(i) ==
  /\ items' = WithCurrentNil(items, i)
  /\ ret' = Ret("WithCurrentNil", i, Nil, FALSE, NoError)
  /\ effect' = NoEffect
  /\ UNCHANGED <<voters, cache, first, votes, otherVars>>

InitCurrent ==
  /\ items = Roots(MaxFlat)
  /\ ret = Ret("init", NilItem, Nil, FALSE, NoError)
  /\ voters \in {NewCoreMatcher(n) : n \in 0 .. MaxVoters}
  /\ cache = EmptyMap
  /\ effect = NoEffect
  /\ first = EmptyMap
  /\ votes = EmptyMap
  /\ OthersIdle

NextCurrent ==
  \/ \E i \in DOMAIN items, ans \in [1 .. Len(voters) -> Tri] : CallIsCurrent(i, ans)
  \/ CallClear
  \/ \E i \in DOMAIN items : CallSetIsCurrent(i)
  \/ \E i \in DOMAIN items : CallSetNotCurrent(i)
  \/ \E i \in DOMAIN items : CallWithCurrentNil(i)

SpecCurrent == InitCurrent /\ [][NextCurrent]_vars

\* ------------------------------ SpecAncestor: IsAncestor and Clear on a tree,
\* one call at a time, with one voter that is a pure function of (ctx, item)

\* The trees of n items under the root 1: item i > 1 is attached under an
\* earlier item, in the order 2, 3, ...
ParentVectors(n) == {pv \in [2 .. n -> 1 .. n] : \A i \in 2 .. n : pv[i] < i}

RECURSIVE Attach(_, _, _)
Attach(h, pv, i) ==
  IF i > Len(h) THEN h ELSE Attach(AddChild(h, pv[i], i).h, pv, i + 1)

TreeOf(n, pv) == Attach(Roots(n), pv, 2)

\* An item's forced flag together with what the voter answers for it.
CurrentCases ==
  {[cur |-> Nil, vote |-> Nil], [cur |-> Nil, vote |-> Ptr(TRUE)],
   [cur |-> Ptr(TRUE), vote |-> Nil], [cur |-> Ptr(FALSE), vote |-> Ptr(TRUE)]}

\* The tree with the forced flags set and item `hidden` (if any) hidden.
Dress(h, cases, hidden) ==
  [i \in DOMAIN h |->
     [h[i] EXCEPT !.Current = cases[i].cur,
                  !.Cell = IF cases[i].cur = Nil THEN NilItem ELSE i,
                  !.Display = (i # hidden)]]

Depths == {Nil} \cup {Ptr(d) : d \in 0 .. MaxDepth}

CallIsAncestor(i, depth) ==
  LET r == IsAncestor(items, cache, voters, votes, i, depth, 1)
  IN /\ cache' = r.cache
     /\ ret' = Ret("IsAncestor", i, depth, r.val, NoError)
     /\ effect' = [depth |-> r.depth, calls |-> r.calls, diverged |-> r.diverged]
     /\ UNCHANGED <<items, voters, first, votes, otherVars>>

InitAncestor ==
  /\ \E pv \in ParentVectors(MaxTree), cases \in [1 .. MaxTree -> CurrentCases],
        hidden \in {NilItem, MaxTree} :
       /\ items = Dress(TreeOf(MaxTree, pv), cases, hidden)
       /\ votes = [i \in 1 .. MaxTree |-> <<cases[i].vote>>]
  /\ ret = Ret("init", NilItem, Nil, FALSE, NoError)
  /\ voters = NewCoreMatcher(1)
  /\ cache = EmptyMap
  /\ effect = NoEffect
  /\ first = EmptyMap
  /\ OthersIdle

NextAncestor ==
  \/ \E i \in DOMAIN items, depth \in Depths : CallIsAncestor(i, depth)
  \/ CallClear

SpecAncestor == InitAncestor /\ [][NextAncestor]_vars

\* ---------------- SpecConc: goroutines calling IsCurrent, IsAncestor and Clear
\* on one CoreMatcher, one statement at a time; the voter is a pure function

Threads == 1 .. MaxThreads

\* sync.RWMutex. RLock waits while a writer holds the lock or a Lock is
\* pending; Lock first announces itself (from then on no new reader gets in),
\* then waits until the readers have left.
CanRLock(m) == m.writer = NoThread /\ m.pending = NoThread
RLock(m, t) == [m EXCEPT !.readers = @ \cup {t}]
RUnlock(m, t) == [m EXCEPT !.readers = @ \ {t}]
CanLock(m) == m.writer = NoThread /\ m.pending = NoThread
LockPending(m, t) == [m EXCEPT !.pending = t]
CanAcquire(m, t) == m.pending = t /\ m.readers = {}
LockAcquire(m, t) == [m EXCEPT !.pending = NoThread, !.writer = t]
Unlock(m, t) == [m EXCEPT !.writer = NoThread]

\* IsAncestor as the goroutine runs it: stack holds a frame [item, k] per
\* nested invocation, k the index of the child its loop is at. The operators
\* run the goroutine's own statements up to the next IsCurrent call that has to
\* take the lock (target), or to the end of the search (done, val).
RECURSIVE AncEnter(_, _, _, _)
RECURSIVE AncAdvance(_, _, _)

AncDone(val, d) ==
  [done |-> TRUE, val |-> val, stack |-> <<>>, depth |-> d, target |-> NilItem]

\* The loop of the innermost invocation moves to its next child.
AncAdvance(h, st, d) ==
  IF st = <<>> THEN AncDone(FALSE, d)
  ELSE LET top == st[Len(st)]
           k == top.k + 1
       IN IF k > Len(h[top.item].Children)
          THEN AncAdvance(h, SubSeq(st, 1, Len(st) - 1), d)
          ELSE LET child == h[top.item].Children[k]
                   st1 == [st EXCEPT ![Len(st)].k = k]
               IN IF h[child].Current # Nil
                  THEN IF Deref(h[child].Current) THEN AncDone(TRUE, d)
                       ELSE AncEnter(h, st1, d, child)
                  ELSE [done |-> FALSE, val |-> FALSE, stack |-> st1,
                        depth |-> d, target |-> child]

\* m.IsAncestor(ctx, item, depth) is entered: the depth check, the decrement.
AncEnter(h, st, d, item) ==
  IF d # Nil /\ Deref(d) = 0 THEN AncAdvance(h, st, d)
  ELSE AncAdvance(h, Append(st, [item |-> item, k |-> 0]),
                  IF d # Nil THEN Ptr(Deref(d) - 1) ELSE Nil)

\* m.IsCurrent(ctx, child) returned v inside the loop of IsAncestor.
AncAfterIsCurrent(h, st, d, child, v) ==
  IF v THEN AncDone(TRUE, d) ELSE AncEnter(h, st, d, child)

ConcUnchanged == UNCHANGED <<items, voters, votes, effect, first, renderVars>>

\* A goroutine calls m.IsCurrent(ctx, i): the forced flag is checked first.
StartIsCurrent(t, i) ==
  /\ pc[t] = "idle"
  /\ IF items[i].Current # Nil
     THEN /\ ret' = Ret("IsCurrent", i, Nil, Deref(items[i].Current), NoError)
          /\ UNCHANGED <<pc, loc>>
     ELSE /\ pc' = [pc EXCEPT ![t] = "ic_rlock"]
          /\ loc' = [loc EXCEPT ![t] = [IdleLocals EXCEPT !.op = "IsCurrent",
                                                           !.root = i, !.item = i]]
          /\ UNCHANGED ret
  /\ UNCHANGED <<mu, cache>>
  /\ ConcUnchanged

\* A goroutine calls m.IsAncestor(ctx, i, depth) and runs to its first
\* IsCurrent call that needs the lock.
StartIsAncestor(t, i, depth) ==
  /\ pc[t] = "idle"
  /\ LET r == AncEnter(items, <<>>, depth, i)
     IN IF r.done
        THEN /\ ret' = Ret("IsAncestor", i, depth, r.val, NoError)
             /\ UNCHANGED <<pc, loc>>
        ELSE /\ pc' = [pc EXCEPT ![t] = "ic_rlock"]
             /\ loc' = [loc EXCEPT ![t] =
                          [op |-> "IsAncestor", root |-> i, item |-> r.target,
                           current |-> FALSE, stack |-> r.stack, depth |-> r.depth]]
             /\ UNCHANGED ret
  /\ UNCHANGED <<mu, cache>>
  /\ ConcUnchanged

\* (Clear that replaces the map without taking the lock)
StartClearUnlocked(t) ==
  /\ pc[t] = "idle"
  /\ pc' = [pc EXCEPT ![t] = "cl_replace"]
  /\ loc' = [loc EXCEPT ![t] = [IdleLocals EXCEPT !.op = "Clear"]]
  /\ UNCHANGED <<mu, cache, ret>>
  /\ ConcUnchanged

\* A goroutine calls m.Clear().
StartClear(t) ==
  /\ pc[t] = "idle"
  /\ pc' = [pc EXCEPT ![t] = "cl_lock"]
  /\ loc' = [loc EXCEPT ![t] = [IdleLocals EXCEPT !.op = "Clear"]]
  /\ UNCHANGED <<mu, cache, ret>>
  /\ ConcUnchanged

\* IsCurrent returns v to its caller: to the goroutine's own caller, or into
\* the loop of IsAncestor, which goes on to its next IsCurrent call.
ReturnIsCurrent(t, v) ==
  IF loc[t].op = "IsCurrent"
  THEN /\ ret' = Ret("IsCurrent", loc[t].item, Nil, v, NoError)
       /\ pc' = [pc EXCEPT ![t] = "idle"]
       /\ loc' = [loc EXCEPT ![t] = IdleLocals]
  ELSE LET r == AncAfterIsCurrent(items, loc[t].stack, loc[t].depth, loc[t].item, v)
       IN IF r.done
          THEN /\ ret' = Ret("IsAncestor", loc[t].root, Nil, r.val, NoError)
               /\ pc' = [pc EXCEPT ![t] = "idle"]
               /\ loc' = [loc EXCEPT ![t] = IdleLocals]
          ELSE /\ pc' = [pc EXCEPT ![t] = "ic_rlock"]
               /\ loc' = [loc EXCEPT ![t].item = r.target, ![t].current = FALSE,
                                     ![t].stack = r.stack, ![t].depth = r.depth]
               /\ UNCHANGED ret

\* matcher.go:68  m.mu.RLock()
IcRLock(t) ==
  /\ pc[t] = "ic_rlock"
  /\ CanRLock(mu)
  /\ mu' = RLock(mu, t)
  /\ pc' = [pc EXCEPT ![t] = "ic_read"]
  /\ UNCHANGED <<cache, ret, loc>>
  /\ ConcUnchanged

\* (a hit that returns the zero value instead of the cached one)
IcReadShadowed(t) ==
  /\ pc[t] = "ic_read"
  /\ IF loc[t].item \in DOMAIN cache
     THEN /\ loc' = [loc EXCEPT ![t].current = FALSE]
          /\ pc' = [pc EXCEPT ![t] = "ic_hit"]
     ELSE /\ pc' = [pc EXCEPT ![t] = "ic_vote"]
          /\ UNCHANGED loc
  /\ UNCHANGED <<mu, cache, ret>>
  /\ ConcUnchanged

\* matcher.go:69  current, ok := m.cache[item]
IcRead(t) ==
  /\ pc[t] = "ic_read"
  /\ IF loc[t].item \in DOMAIN cache
     THEN /\ loc' = [loc EXCEPT ![t].current = cache[loc[t].item]]
          /\ pc' = [pc EXCEPT ![t] = "ic_hit"]
     ELSE /\ pc' = [pc EXCEPT ![t] = "ic_vote"]
          /\ UNCHANGED loc
  /\ UNCHANGED <<mu, cache, ret>>
  /\ ConcUnchanged

\* matcher.go:70-71  m.mu.RUnlock(); return current
IcHit(t) ==
  /\ pc[t] = "ic_hit"
  /\ mu' = RUnlock(mu, t)
  /\ ReturnIsCurrent(t, loc[t].current)
  /\ UNCHANGED cache
  /\ ConcUnchanged

\* matcher.go:74-80  the voter loop, run while the read lock is held
IcVote(t) ==
  /\ pc[t] = "ic_vote"
  /\ loc' = [loc EXCEPT ![t].current =
               RunVoters(voters, votes[loc[t].item], 1).current]
  /\ pc' = [pc EXCEPT ![t] = "ic_runlock"]
  /\ UNCHANGED <<mu, cache, ret>>
  /\ ConcUnchanged

\* (the step to the write path with the read lock still held)
IcRUnlockHeld(t) ==
  /\ pc[t] = "ic_runlock"
  /\ pc' = [pc EXCEPT ![t] = "ic_lock"]
  /\ UNCHANGED <<mu, cache, ret, loc>>
  /\ ConcUnchanged

\* matcher.go:82  m.mu.RUnlock()
IcRUnlock(t) ==
  /\ pc[t] = "ic_runlock"
  /\ mu' = RUnlock(mu, t)
  /\ pc' = [pc EXCEPT ![t] = "ic_lock"]
  /\ UNCHANGED <<cache, ret, loc>>
  /\ ConcUnchanged

\* matcher.go:83  m.mu.Lock(): the Lock is announced ...
IcLock(t) ==
  /\ pc[t] = "ic_lock"
  /\ CanLock(mu)
  /\ mu' = LockPending(mu, t)
  /\ pc' = [pc EXCEPT ![t] = "ic_locking"]
  /\ UNCHANGED <<cache, ret, loc>>
  /\ ConcUnchanged

\* ... and returns once the readers have left.
IcLocked(t) ==
  /\ pc[t] = "ic_locking"
  /\ CanAcquire(mu, t)
  /\ mu' = LockAcquire(mu, t)
  /\ pc' = [pc EXCEPT ![t] = "ic_write"]
  /\ UNCHANGED <<cache, ret, loc>>
  /\ ConcUnchanged

\* matcher.go:86  m.cache[item] = current
IcWrite(t) ==
  /\ pc[t] = "ic_write"
  /\ cache' = (loc[t].item :> loc[t].current) @@ cache
  /\ pc' = [pc EXCEPT ![t] = "ic_unlock"]
  /\ UNCHANGED <<mu, ret, loc>>
  /\ ConcUnchanged

\* matcher.go:84,87  return current, with the deferred m.mu.Unlock()
IcUnlock(t) ==
  /\ pc[t] = "ic_unlock"
  /\ mu' = Unlock(mu, t)
  /\ ReturnIsCurrent(t, loc[t].current)
  /\ UNCHANGED cache
  /\ ConcUnchanged

\* matcher.go:113  m.mu.Lock(): the Lock is announced ...
ClLock(t) ==
  /\ pc[t] = "cl_lock"
  /\ CanLock(mu)
  /\ mu' = LockPending(mu, t)
  /\ pc' = [pc EXCEPT ![t] = "cl_locking"]
  /\ UNCHANGED <<cache, ret, loc>>
  /\ ConcUnchanged

\* ... and returns once the readers have left.
ClLocked(t) ==
  /\ pc[t] = "cl_locking"
  /\ CanAcquire(mu, t)
  /\ mu' = LockAcquire(mu, t)
  /\ pc' = [pc EXCEPT ![t] = "cl_replace"]
  /\ UNCHANGED <<cache, ret, loc>>
  /\ ConcUnchanged

\* matcher.go:116  m.cache = map[*Item]bool{}
ClReplace(t) ==
  /\ pc[t] = "cl_replace"
  /\ cache' = Clear(cache)
  /\ pc' = [pc EXCEPT ![t] = "cl_unlock"]
  /\ UNCHANGED <<mu, ret, loc>>
  /\ ConcUnchanged

\* matcher.go:114  the deferred m.mu.Unlock(), and Clear returns
ClUnlock(t) ==
  /\ pc[t] = "cl_unlock"
  /\ mu' = Unlock(mu, t)
  /\ pc' = [pc EXCEPT ![t] = "idle"]
  /\ loc' = [loc EXCEPT ![t] = IdleLocals]
  /\ ret' = Ret("Clear", NilItem, Nil, FALSE, NoError)
  /\ UNCHANGED cache
  /\ ConcUnchanged

\* The items the goroutines ask about: unforced ones the voter abstains on or
\* matches, and a last item that may carry a forced flag instead.
ConcCases ==
  {cases \in [1 .. MaxConc -> CurrentCases] :
     \A i \in 1 .. MaxConc : cases[i].cur # Nil => (i = MaxConc /\ cases[i].cur = Ptr(FALSE))}

InitConc ==
  /\ \E pv \in ParentVectors(MaxConc), cases \in ConcCases :
       /\ items = Dress(TreeOf(MaxConc, pv), cases, NilItem)
       /\ votes = [i \in 1 .. MaxConc |-> <<cases[i].vote>>]
  /\ ret = Ret("init", NilItem, Nil, FALSE, NoError)
  /\ voters = NewCoreMatcher(1)
  /\ cache = EmptyMap
  /\ effect = NoEffect
  /\ first = EmptyMap
  /\ mu = Unlocked
  /\ pc = [t \in Threads |-> "idle"]
  /\ loc = [t \in Threads |-> IdleLocals]
  /\ RenderIdle

NextConc ==
  \E t \in Threads :
    \/ \E i \in DOMAIN items : StartIsCurrent(t, i)
    \/ \E i \in DOMAIN items : StartIsAncestor(t, i, Nil)
    \/ StartClear(t)
    \/ IcRLock(t)
    \/ IcRead(t)
    \/ IcHit(t)
    \/ IcVote(t)
    \/ IcRUnlock(t)
    \/ IcLock(t)
    \/ IcLocked(t)
    \/ IcWrite(t)
    \/ IcUnlock(t)
    \/ ClLock(t)
    \/ ClLocked(t)
    \/ ClReplace(t)
    \/ ClUnlock(t)

SpecConc == InitConc /\ [][NextConc]_vars

\* Fair scheduling. A goroutine that can run its next statement does so. A
\* goroutine blocked in RLock is let in when the writer unlocks, before the
\* next writer, and sync.Mutex hands the writers' mutex to the longest
\* waiter: a lock request that can be granted again and again is granted.
\* Nothing obliges a goroutine to start a call.
ConcStep(t) ==
  \/ IcRead(t) \/ IcHit(t) \/ IcVote(t) \/ IcRUnlock(t)
  \/ IcLocked(t) \/ IcWrite(t) \/ IcUnlock(t)
  \/ ClLocked(t) \/ ClReplace(t) \/ ClUnlock(t)

ConcFair ==
  \A t \in Threads :
    /\ WF_vars(ConcStep(t))
    /\ SF_vars(IcRLock(t))
    /\ SF_vars(IcLock(t) \/ ClLock(t))

SpecConcFair == SpecConc /\ ConcFair

\* ---------------- renderer.Options and renderer.ListRenderer
\* Labels, attribute bags, the extras bag and the indentation of the markup
\* (format, which reads only the extras and the item's level) are left out:
\* the output is the sequence of tags, each list item with the class names it
\* carries and the budgets renderItem received.

\* An Option of the renderer package is a function on *Options.
OptSetDepth(k) == [kind |-> "SetDepth", v |-> k]
OptSetMatchingDepth(k) == [kind |-> "SetMatchingDepth", v |-> k]
WithLeafClass(s) == [kind |-> "WithLeafClass", v |-> s]
WithBranchClass(s) == [kind |-> "WithBranchClass", v |-> s]
WithClearMatcher(b) == [kind |-> "WithClearMatcher", v |-> b]
WithDepth(depth) == [kind |-> "WithDepth", p |-> depth]
WithMatchingDepth(matchingDepth) == [kind |-> "WithMatchingDepth", p |-> matchingDepth]
\* renderer.WithExtra(name, value).
RendererWithExtra(name, value) == [kind |-> "RendererWithExtra", k |-> name, v |-> value]
WithCurrentClass(currentClass) == [kind |-> "WithCurrentClass", v |-> currentClass]
WithAncestorClass(ancestorClass) == [kind |-> "WithAncestorClass", v |-> ancestorClass]
WithFirstClass(firstClass) == [kind |-> "WithFirstClass", v |-> firstClass]
WithLastClass(lastClass) == [kind |-> "WithLastClass", v |-> lastClass]
WithCurrentAsLink(currentAsLink) == [kind |-> "WithCurrentAsLink", v |-> currentAsLink]
WithAllowSafeLabels(allowSafeLabels) ==
  [kind |-> "WithAllowSafeLabels", v |-> allowSafeLabels]
\* RendererWithExtras(extras): extras is a map reference, Nil for the nil map.
RendererWithExtras(extras) == [kind |-> "RendererWithExtras", m |-> extras]

\* What takes the place of the Options when an option panics: a write
\* through a nil pointer, or an assignment to an entry of the nil map.
Panicked == [panic |-> PanicNilDereference]
PanickedNilMap == [panic |-> PanicNilMap]
Panics(o) == "panic" \in DOMAIN o

\* option(o) for one Option.
ApplyRenderOption(o, opt) ==
  IF opt.kind = "SetDepth" THEN [o EXCEPT !.Depth = Ptr(opt.v)]
  ELSE IF opt.kind = "SetMatchingDepth" THEN [o EXCEPT !.MatchingDepth = Ptr(opt.v)]
  ELSE IF opt.kind = "WithLeafClass" THEN [o EXCEPT !.LeafClass = opt.v]
  ELSE IF opt.kind = "WithBranchClass" THEN [o EXCEPT !.BranchClass = opt.v]
  ELSE IF opt.kind = "WithClearMatcher" THEN [o EXCEPT !.ClearMatcher = opt.v]
  ELSE IF opt.kind = "WithDepth"
  THEN IF opt.p = Nil THEN [o EXCEPT !.Depth = Nil]
       ELSE IF o.Depth = Nil THEN Panicked
       ELSE [o EXCEPT !.Depth[1] = Deref(opt.p)]
  ELSE IF opt.kind = "WithMatchingDepth"
  THEN IF opt.p = Nil THEN [o EXCEPT !.MatchingDepth = Nil]
       ELSE IF o.MatchingDepth = Nil THEN Panicked
       ELSE [o EXCEPT !.MatchingDepth[1] = Deref(opt.p)]
  ELSE IF opt.kind = "RendererWithExtra"
  THEN IF o.Extras = Nil THEN PanickedNilMap
       ELSE [o EXCEPT !.Extras[1] = (opt.k :> opt.v) @@ @]
  ELSE IF opt.kind = "WithCurrentClass" THEN [o EXCEPT !.CurrentClass = opt.v]
  ELSE IF opt.kind = "WithAncestorClass" THEN [o EXCEPT !.AncestorClass = opt.v]
  ELSE IF opt.kind = "WithFirstClass" THEN [o EXCEPT !.FirstClass = opt.v]
  ELSE IF opt.kind = "WithLastClass" THEN [o EXCEPT !.LastClass = opt.v]
  ELSE IF opt.kind = "WithCurrentAsLink" THEN [o EXCEPT !.CurrentAsLink = opt.v]
  ELSE IF opt.kind = "WithAllowSafeLabels" THEN [o EXCEPT !.AllowSafeLabels = opt.v]
  ELSE IF opt.kind = "RendererWithExtras"
  THEN [o EXCEPT !.Extras = IF opt.m = Nil THEN Ptr(EmptyMap) ELSE Ptr(Deref(opt.m))]
  ELSE o

\* o.Apply(options...), from the k-th option on.
RECURSIVE Apply(_, _, _)
Apply(o, options, k) ==
  IF k > Len(options) \/ Panics(o) THEN o
  ELSE Apply(ApplyRenderOption(o, options[k]), options, k + 1)

NewOptions(options) ==
  Apply([Depth |-> Nil, MatchingDepth |-> Nil,
         CurrentClass |-> "current", AncestorClass |-> "current-ancestor",
         FirstClass |-> "first", LastClass |-> "last",
         LeafClass |-> "", BranchClass |-> "",
         CurrentAsLink |-> TRUE, AllowSafeLabels |-> FALSE,
         ClearMatcher |-> TRUE, Extras |-> Ptr(EmptyMap)], options, 1)

\* A *int or a map is a reference: <<v>> is a cell of its own, <<v, name>>
\* the cell of that name; a write in place keeps the cell.  Named(o) is o with
\* its three cells named, and WriteBack(ro, o) is ro after what was written
\* through o: the cells o still shares with it carry o's values.
Named(o) ==
  [o EXCEPT !.Depth = IF @ = Nil THEN Nil ELSE <<@[1], "r.options">>,
            !.MatchingDepth = IF @ = Nil THEN Nil ELSE <<@[1], "r.options">>,
            !.Extras = IF @ = Nil THEN Nil ELSE <<@[1], "r.options">>]

WriteBack(ro, o) ==
  [ro EXCEPT !.Depth = IF Len(o.Depth) = 2 THEN Ptr(Deref(o.Depth)) ELSE @,
             !.MatchingDepth = IF Len(o.MatchingDepth) = 2
                               THEN Ptr(Deref(o.MatchingDepth)) ELSE @,
             !.Extras = IF Len(o.Extras) = 2 THEN Ptr(Deref(o.Extras)) ELSE @]

\* (a copy of the struct alone, which keeps the pointers and the map)
CopyShallow(o) == o

\* o.Copy(): a new Options whose two budgets are fresh integers and whose
\* Extras is a clone.
Copy(o) ==
  [o EXCEPT !.Depth = IF o.Depth # Nil THEN Ptr(Deref(o.Depth)) ELSE Nil,
            !.MatchingDepth = IF o.MatchingDepth # Nil
                              THEN Ptr(Deref(o.MatchingDepth)) ELSE Nil,
            !.Extras = IF o.Extras # Nil THEN Ptr(Deref(o.Extras)) ELSE Nil]

\* *o.Depth--
SubDepth(o) ==
  IF o.Depth # Nil THEN [o EXCEPT !.Depth[1] = @ - 1] ELSE o

IsStop(o) == o.Depth # Nil /\ Deref(o.Depth) <= 0

SubMatchingDepth(o) ==
  IF o.MatchingDepth # Nil /\ Deref(o.MatchingDepth) > 0
  THEN [o EXCEPT !.MatchingDepth[1] = @ - 1] ELSE o

\* (a HasChildren that counts hidden children too)
HasChildrenAny(h, i) == h[i].Children # <<>>

\* Item helpers the renderer calls.
HasChildren(h, i) ==
  \E k \in 1 .. Len(h[i].Children) : h[h[i].Children[k]].Display

\* A Level that counts the parent and no further ancestor.
LevelFlat(h, i) == IF h[i].Parent = NilItem THEN 0 ELSE 1

RECURSIVE Level(_, _)
Level(h, i) == IF h[i].Parent = NilItem THEN 0 ELSE 1 + Level(h, h[i].Parent)

\* i.FirstChild() and i.LastChild() index i.Children: on an item without
\* children they panic.  IsFirst and IsLast ask them of the item's parent,
\* and ActsLikeFirst and ActsLikeLast ask IsFirst and IsLast of a displayed
\* item that has a parent.
PanicIndex == "panic: runtime error: index out of range"

FirstChildPanics(h, i) == h[i].Children = <<>>

ActsLikeFirstPanics(h, i) ==
  h[i].Parent # NilItem /\ h[i].Display /\ FirstChildPanics(h, h[i].Parent)

IsFirst(h, i) ==
  IF h[i].Parent = NilItem THEN FALSE ELSE h[h[i].Parent].Children[1] = i

IsLast(h, i) ==
  IF h[i].Parent = NilItem THEN FALSE
  ELSE h[h[i].Parent].Children[Len(h[h[i].Parent].Children)] = i

\* The first / last displayed sibling is compared with the item by Name.
ActsLikeFirst(h, i) ==
  IF h[i].Parent = NilItem THEN FALSE
  ELSE IF ~h[i].Display THEN FALSE
  ELSE IF IsFirst(h, i) THEN TRUE
  ELSE LET sib == h[h[i].Parent].Children
           shown == {k \in 1 .. Len(sib) : h[sib[k]].Display}
       IN IF shown = {} THEN FALSE
          ELSE h[sib[CHOOSE k \in shown : \A j \in shown : k <= j]].Name = h[i].Name

ActsLikeLast(h, i) ==
  IF h[i].Parent = NilItem THEN FALSE
  ELSE IF ~h[i].Display THEN FALSE
  ELSE IF IsLast(h, i) THEN TRUE
  ELSE LET sib == h[h[i].Parent].Children
           shown == {k \in 1 .. Len(sib) : h[sib[k]].Display}
       IN IF shown = {} THEN FALSE
          ELSE h[sib[CHOOSE k \in shown : \A j \in shown : k >= j]].Name = h[i].Name

\* internal.HTMLClasses: the names joined by blanks and trimmed, kept here as
\* the sequence of the non-empty names.
HTMLClasses(classes) == SelectSeq(classes, LAMBDA s : s # "")

\* i.Attribute(name, def): the value under name in i.Attributes, def when
\* there is none.
Attribute(h, i, name, def) ==
  IF name \in DOMAIN Bag(h, i, "Attributes")
  THEN Bag(h, i, "Attributes")[name] ELSE def

\* i.ChildrenAttribute(name, def).
ChildrenAttribute(h, i, name, def) ==
  IF name \in DOMAIN Bag(h, i, "ChildrenAttributes")
  THEN Bag(h, i, "ChildrenAttributes")[name] ELSE def

\* i.Extra(name, def).
Extra(h, i, name, def) ==
  IF name \in DOMAIN Bag(h, i, "Extras") THEN Bag(h, i, "Extras")[name] ELSE def

\* o.Extra(name, def): the value under name in o.Extras (the nil map reads as
\* the empty one), def when there is none.
OptionsExtra(o, name, def) ==
  IF o.Extras # Nil /\ name \in DOMAIN Deref(o.Extras)
  THEN Deref(o.Extras)[name] ELSE def

\* r.format(content, typ, level, options): how the call ends.  The extra
\* "compressed" is asserted to be a bool; without it the content is indented
\* by strings.Repeat(" ", spacing), which panics on a negative count: that of
\* a list item of level 0.
PanicRepeat == "panic: strings: negative Repeat count"

format(typ, level, o) ==
  IF ~IsBool(OptionsExtra(o, "compressed", AnyBool(FALSE))) THEN PanicNotBool
  ELSE IF ValueOf(OptionsExtra(o, "compressed", AnyBool(FALSE))) THEN NoError
  ELSE IF (IF typ \in {"ul", "link"} THEN level * 4
           ELSE IF typ = "li" THEN level * 4 - 2 ELSE 0) < 0
  THEN PanicRepeat
  ELSE NoError

\* r.renderLabel(item, options): how the call ends.  With AllowSafeLabels
\* the item's extra "safe_label" is asserted to be a bool.
renderLabel(h, item, o) ==
  IF o.AllowSafeLabels /\ ~IsBool(Extra(h, item, "safe_label", AnyBool(FALSE)))
  THEN PanicNotBool ELSE NoError

\* The class list of renderItem: the item's own class attribute, asserted to
\* be a string, the names the matcher's answers added, first, last, branch or
\* leaf.  err is the panic that ended the computation, if one did.
ClassList(h, item, o, matched) ==
  IF ~IsString(Attribute(h, item, "class", AnyString("")))
  THEN [classes |-> <<>>, err |-> PanicNotString]
  ELSE IF ActsLikeFirstPanics(h, item)
  THEN [classes |-> <<ValueOf(Attribute(h, item, "class", AnyString("")))>> \o matched,
        err |-> PanicIndex]
  ELSE [classes |->
          <<ValueOf(Attribute(h, item, "class", AnyString("")))>>
          \o matched
          \o (IF ActsLikeFirst(h, item) THEN <<o.FirstClass>> ELSE <<>>)
          \o (IF ActsLikeLast(h, item) THEN <<o.LastClass>> ELSE <<>>)
          \o (IF ~IsStop(o) /\ HasChildren(h, item)
              THEN IF h[item].DisplayChildren THEN <<o.BranchClass>> ELSE <<>>
              ELSE <<o.LeafClass>>),
        err |-> NoError]

\* (renderItem with `if` in place of `else if`: the ancestor test also runs
\* for a current item, and its class is appended too)
renderItemClassesBoth(h, c, vs, vt, item, o) ==
  IF ~IsString(Attribute(h, item, "class", AnyString("")))
  THEN [classes |-> <<>>, cache |-> c, options |-> o, err |-> PanicNotString]
  ELSE Only({
    Only({
      IF anc.diverged
      THEN [classes |-> <<>>, cache |-> anc.cache, options |-> o, err |-> StackOverflow]
      ELSE Only({[classes |-> cl.classes,
                  cache |-> anc.cache,
                  options |-> [o EXCEPT !.MatchingDepth = anc.depth],
                  err |-> cl.err] :
                 cl \in {ClassList(h, item, o,
                           (IF cur.val THEN <<o.CurrentClass>> ELSE <<>>)
                           \o (IF anc.val THEN <<o.AncestorClass>> ELSE <<>>))}}) :
      anc \in {IsAncestor(h, cur.cache, vs, vt, item, o.MatchingDepth, 1)}}) :
    cur \in {IsCurrent(h, c, vs, item, vt[item])}})

\* renderItem up to the class list: classes as appended, the cache after the
\* matcher calls, and the options, whose matching-depth integer IsAncestor,
\* if it ran, has counted down in place.  The type assertion on the class
\* attribute comes before the matcher is asked.  err is the panic that ended
\* the computation, or the stack overflow of an IsAncestor that never
\* returns.
renderItemClasses(h, c, vs, vt, item, o) ==
  IF ~IsString(Attribute(h, item, "class", AnyString("")))
  THEN [classes |-> <<>>, cache |-> c, options |-> o, err |-> PanicNotString]
  ELSE Only({
    Only({
      IF anc.diverged
      THEN [classes |-> <<>>, cache |-> anc.cache, options |-> o, err |-> StackOverflow]
      ELSE Only({[classes |-> cl.classes,
                  cache |-> anc.cache,
                  options |-> [o EXCEPT !.MatchingDepth = anc.depth],
                  err |-> cl.err] :
                 cl \in {ClassList(h, item, o,
                           IF cur.val THEN <<o.CurrentClass>>
                           ELSE IF anc.val THEN <<o.AncestorClass>> ELSE <<>>)}}) :
      anc \in {IF cur.val
               THEN [val |-> FALSE, cache |-> cur.cache, depth |-> o.MatchingDepth,
                     diverged |-> FALSE]
               ELSE IsAncestor(h, cur.cache, vs, vt, item, o.MatchingDepth, 1)}}) :
    cur \in {IsCurrent(h, c, vs, item, vt[item])}})

\* renderLink: an anchor or a span; IsCurrent is asked only for an item with
\* a URI.  The label is rendered after that, and the element is formatted.
renderLink(h, c, vs, vt, item, o) ==
  Only({
    IF renderLabel(h, item, o) # NoError
    THEN [out |-> <<>>, cache |-> cur.cache, err |-> renderLabel(h, item, o)]
    ELSE IF format("link", Level(h, item), o) # NoError
    THEN [out |-> <<>>, cache |-> cur.cache, err |-> format("link", Level(h, item), o)]
    ELSE [out |-> <<[typ |-> IF h[item].URI # "" /\ (~cur.val \/ o.CurrentAsLink)
                             THEN "a" ELSE "span",
                     item |-> item]>>,
          cache |-> cur.cache, err |-> NoError] :
    cur \in {IF h[item].URI = "" THEN [val |-> FALSE, cache |-> c]
             ELSE IsCurrent(h, c, vs, item, vt[item])}})

RECURSIVE renderList(_, _, _, _, _, _)
RECURSIVE renderChildrenFrom(_, _, _, _, _, _, _)
RECURSIVE renderItem(_, _, _, _, _, _)

\* (renderList that ignores the depth budget)
renderListNoStop(h, c, vs, vt, item, o) ==
  IF ~HasChildren(h, item) \/ ~h[item].DisplayChildren
  THEN [out |-> <<>>, cache |-> c, options |-> o, err |-> NoError]
  ELSE IF format("ul", Level(h, item), o) # NoError
  THEN [out |-> <<>>, cache |-> c, options |-> o,
        err |-> format("ul", Level(h, item), o)]
  ELSE Only({[out |-> <<[typ |-> "ul", item |-> item]>> \o r.out
                      \o (IF r.err = NoError
                          THEN <<[typ |-> "/ul", item |-> item]>> ELSE <<>>),
              cache |-> r.cache,
              options |-> SubMatchingDepth(SubDepth(o)),
              err |-> r.err] :
             r \in {renderChildrenFrom(h, c, vs, vt, item,
                                       SubMatchingDepth(SubDepth(o)), 1)}})

\* renderList, with renderChildren's decrement of both budgets, which is made
\* in place: options is the caller's Options as the call leaves it.  err is
\* the panic that ended the call, if one did; out is then what had been built.
\* The opening tag is formatted before the children are rendered.
renderList(h, c, vs, vt, item, o) ==
  IF IsStop(o) \/ ~HasChildren(h, item) \/ ~h[item].DisplayChildren
  THEN [out |-> <<>>, cache |-> c, options |-> o, err |-> NoError]
  ELSE IF format("ul", Level(h, item), o) # NoError
  THEN [out |-> <<>>, cache |-> c, options |-> o,
        err |-> format("ul", Level(h, item), o)]
  ELSE Only({[out |-> <<[typ |-> "ul", item |-> item]>> \o r.out
                      \o (IF r.err = NoError
                          THEN <<[typ |-> "/ul", item |-> item]>> ELSE <<>>),
              cache |-> r.cache,
              options |-> SubMatchingDepth(SubDepth(o)),
              err |-> r.err] :
             r \in {renderChildrenFrom(h, c, vs, vt, item,
                                       SubMatchingDepth(SubDepth(o)), 1)}})

\* renderChildren's loop from the k-th child on: each child gets a copy of
\* the decremented options.  A panic in a child ends the loop.
renderChildrenFrom(h, c, vs, vt, item, o, k) ==
  IF k > Len(h[item].Children) THEN [out |-> <<>>, cache |-> c, err |-> NoError]
  ELSE Only({
    IF r.err # NoError THEN r
    ELSE Only({[out |-> r.out \o rest.out, cache |-> rest.cache, err |-> rest.err] :
               rest \in {renderChildrenFrom(h, r.cache, vs, vt, item, o, k + 1)}}) :
    r \in {renderItem(h, c, vs, vt, h[item].Children[k], Copy(o))}})

\* renderItem: the list item with its classes and the budgets it was called
\* with, the link, the nested list.  In the order of the code: the class
\* list (its type assertion, the matcher, first and last); the class written
\* into a clone of item.Attributes (the clone of a nil map is the nil map,
\* and the write panics); the opening tag formatted; the link; the type
\* assertion on the class of the nested list, which is written into a clone
\* of item.ChildrenAttributes; the nested list.
renderItem(h, c, vs, vt, item, o) ==
  IF ~h[item].Display THEN [out |-> <<>>, cache |-> c, err |-> NoError]
  ELSE Only({
    IF k.err # NoError THEN [out |-> <<>>, cache |-> k.cache, err |-> k.err]
    ELSE IF BagRef(h, item, "Attributes") = Nil
    THEN [out |-> <<>>, cache |-> k.cache, err |-> PanicNilMap]
    ELSE IF format("li", Level(h, item), k.options) # NoError
    THEN [out |-> <<>>, cache |-> k.cache,
          err |-> format("li", Level(h, item), k.options)]
    ELSE Only({
      IF link.err # NoError
      THEN [out |-> <<[typ |-> "li", item |-> item,
                       class |-> HTMLClasses(k.classes),
                       Depth |-> o.Depth, MatchingDepth |-> o.MatchingDepth]>>,
            cache |-> link.cache, err |-> link.err]
      ELSE IF ~IsString(ChildrenAttribute(h, item, "class", AnyString("")))
              \/ BagRef(h, item, "ChildrenAttributes") = Nil
      THEN [out |-> <<[typ |-> "li", item |-> item,
                       class |-> HTMLClasses(k.classes),
                       Depth |-> o.Depth, MatchingDepth |-> o.MatchingDepth]>>
                    \o link.out,
            cache |-> link.cache,
            err |-> IF ~IsString(ChildrenAttribute(h, item, "class", AnyString("")))
                    THEN PanicNotString ELSE PanicNilMap]
      ELSE Only({[out |-> <<[typ |-> "li", item |-> item,
                             class |-> HTMLClasses(k.classes),
                             Depth |-> o.Depth, MatchingDepth |-> o.MatchingDepth]>>
                          \o link.out \o lst.out
                          \o (IF lst.err = NoError
                              THEN <<[typ |-> "/li", item |-> item]>> ELSE <<>>),
                  cache |-> lst.cache, err |-> lst.err] :
                 lst \in {renderList(h, link.cache, vs, vt, item, k.options)}}) :
      link \in {renderLink(h, k.cache, vs, vt, item, k.options)}}) :
    k \in {renderItemClasses(h, c, vs, vt, item, o)}})

\* ListRenderer.Render of a renderer whose options are ro: the output, the
\* cache, and r.options as the call leaves them.  A panic (of an option, or
\* in renderList) ends the call before the matcher is cleared: err is the
\* panic and out what had been built when it struck.
Render(h, c, vs, vt, ro, item, options) ==
  Only({
    IF Panics(opts)
    THEN [out |-> <<>>, cache |-> c, options |-> ro, err |-> opts.panic]
    ELSE Only({[out |-> r.out,
                cache |-> IF r.err = NoError /\ opts.ClearMatcher
                          THEN Clear(r.cache) ELSE r.cache,
                options |-> WriteBack(ro, r.options),
                err |-> r.err] :
               r \in {renderList(h, c, vs, vt, item, opts)}}) :
    opts \in {Apply(Copy(Named(ro)), options, 1)}})

\* ---------------- SpecRender: render passes over small menus

\* The budgets a renderer is built with.
MatchingDepths == {Nil} \cup {Ptr(d) : d \in 1 .. MaxDepth}

\* NewListRenderer(matcher, options...): the leaf and branch classes are
\* named, and the budgets, if any, are set by options that call SetDepth and
\* SetMatchingDepth.
NewListRenderer(depth, mdepth) ==
  NewOptions(<<WithLeafClass("leaf"), WithBranchClass("branch")>>
             \o (IF depth # Nil THEN <<OptSetDepth(Deref(depth))>> ELSE <<>>)
             \o (IF mdepth # Nil THEN <<OptSetMatchingDepth(Deref(mdepth))>>
                 ELSE <<>>))

ItemNames == <<"a", "b", "c", "d", "e">>

\* The tree pv with its items named apart and the display flags set; the
\* last item is dressed with an option of its own.
Menu(n, pv, disp, dc, dress) ==
  LET h == ApplyOption(TreeOf(n, pv), n, dress).h
  IN [i \in DOMAIN h |->
        [h[i] EXCEPT !.Name = ItemNames[i], !.Display = disp[i],
                     !.DisplayChildren = dc[i]]]

\* What the last item of a menu is dressed with: a class of its own, a class
\* that is no string, for itself or for its list of children, or another
\* parent than the item that lists it: none, or the item made before it.
Dressings ==
  {WithAttribute("class", AnyString("mine")),
   WithAttribute("class", AnyBool(TRUE)),
   WithChildrenAttribute("class", AnyBool(TRUE)),
   WithParent(NilItem),
   WithParent(MaxMenu - 1)}

\* r.Render(ctx, items[i], WithClearMatcher(clear)).
CallRender(i, clear) ==
  /\ \E r \in {Render(items, cache, voters, votes, ropts, i,
                       <<WithClearMatcher(clear)>>)} :
       /\ cache' = r.cache
       /\ ret' = Ret("Render", i, clear, r.out, r.err)
  /\ UNCHANGED <<items, voters, effect, first, votes, concVars, ropts>>

\* Menus of MaxMenu items: a displayed root, every flag of the others free
\* (DisplayChildren only where there are children), the voter matching any
\* set of items.  The last item has a class of its own; on the menus whose
\* items are all displayed and show their children it has any dressing.
InitRender ==
  /\ \E pv \in ParentVectors(MaxMenu), disp \in [1 .. MaxMenu -> BOOLEAN],
        dc \in [1 .. MaxMenu -> BOOLEAN], cur \in [1 .. MaxMenu -> BOOLEAN],
        dress \in Dressings :
       /\ disp[1]
       /\ \A i \in 1 .. MaxMenu : (\A j \in 2 .. MaxMenu : pv[j] # i) => dc[i]
       /\ dress # WithAttribute("class", AnyString("mine")) =>
            \A i \in 1 .. MaxMenu : disp[i] /\ dc[i]
       /\ items = Menu(MaxMenu, pv, disp, dc, dress)
       /\ votes = [i \in 1 .. MaxMenu |-> <<IF cur[i] THEN Ptr(TRUE) ELSE Nil>>]
  /\ \E depth \in Depths, mdepth \in MatchingDepths :
       ropts = NewListRenderer(depth, mdepth)
  /\ ret = Ret("init", NilItem, Nil, <<>>, NoError)
  /\ voters = NewCoreMatcher(1)
  /\ cache = EmptyMap
  /\ effect = NoEffect
  /\ first = EmptyMap
  /\ ConcIdle

\* Any item that has children is rendered as a menu of its own.
NextRender ==
  \E i \in {j \in DOMAIN items : items[j].Children # <<>>}, clear \in BOOLEAN :
    CallRender(i, clear)

SpecRender == InitRender /\ [][NextRender]_vars

\* ------------------------------------------------------------------ queries
\* i.Root(): the walk up the Parent pointers to the item that has none.
RECURSIVE Root(_, _)
Root(h, i) == IF h[i].Parent = NilItem THEN i ELSE Root(h, h[i].Parent)

FamilyNames == {"a", "b"}

\* The tree pv with the given names and display flags.
Family(n, pv, names, disp) ==
  LET h == TreeOf(n, pv)
  IN [i \in DOMAIN h |-> [h[i] EXCEPT !.Name = names[i], !.Display = disp[i]]]

CallActsLikeFirst(i) ==
  /\ ret' = IF ActsLikeFirstPanics(items, i)
            THEN Ret("ActsLikeFirst", i, Nil, FALSE, PanicIndex)
            ELSE Ret("ActsLikeFirst", i, Nil, ActsLikeFirst(items, i), NoError)
  /\ UNCHANGED <<items, matchVars, otherVars>>

CallActsLikeLast(i) ==
  /\ ret' = IF ActsLikeFirstPanics(items, i)
            THEN Ret("ActsLikeLast", i, Nil, FALSE, PanicIndex)
            ELSE Ret("ActsLikeLast", i, Nil, ActsLikeLast(items, i), NoError)
  /\ UNCHANGED <<items, matchVars, otherVars>>

CallLevel(i) ==
  /\ ret' = Ret("Level", i, Nil, Level(items, i), NoError)
  /\ UNCHANGED <<items, matchVars, otherVars>>

CallRoot(i) ==
  /\ ret' = Ret("Root", i, Nil, Root(items, i), NoError)
  /\ UNCHANGED <<items, matchVars, otherVars>>

\* Trees of MaxFamily items built with NewItem and AddChild; names are drawn
\* from FamilyNames, so siblings may share one, and any item may be hidden.
InitFamily ==
  /\ \E pv \in ParentVectors(MaxFamily), names \in [1 .. MaxFamily -> FamilyNames],
        disp \in [1 .. MaxFamily -> BOOLEAN] :
       items = Family(MaxFamily, pv, names, disp)
  /\ ret = Ret("init", NilItem, Nil, Nil, NoError)
  /\ MatcherIdle
  /\ OthersIdle

NextFamily ==
  \E i \in DOMAIN items :
    \/ CallActsLikeFirst(i)
    \/ CallActsLikeLast(i)
    \/ CallLevel(i)
    \/ CallRoot(i)

SpecFamily == InitFamily /\ [][NextFamily]_vars

\* ------------------------------------------------------------------ Copy
\* i.Copy(): `item := *i` copies the struct, so the copy holds the original's
\* map references (Maps) and its Current pointer; Parent is cleared, Children
\* is a new slice, and every child is copied in turn and attached with
\* AddChild.  The copy allocates no map of its own.
RECURSIVE ItemCopy(_, _)
RECURSIVE CopyChildren(_, _, _, _)
ItemCopy(h, i) ==
  CopyChildren(Append(h, [h[i] EXCEPT !.Parent = NilItem, !.Children = <<>>,
                                      !.Store = [b \in BagNames |-> Nil]]),
               i, Len(h) + 1, 1)

\* The loop of Copy over i.Children[k..], item being the copy under way.
CopyChildren(h, i, item, k) ==
  IF k > Len(h[i].Children) THEN [h |-> h, item |-> item, err |-> NoError]
  ELSE Only({
         IF c.err # NoError THEN [h |-> c.h, item |-> NilItem, err |-> c.err]
         ELSE Only({
                IF a.err # NoError
                THEN [h |-> a.h, item |-> NilItem, err |-> a.err]
                ELSE CopyChildren(a.h, i, item, k + 1)
                : a \in {AddChild(c.h, item, c.item)}})
         : c \in {ItemCopy(h, h[i].Children[k])}})

\* The number of items of the tree under i, i included.
RECURSIVE Size(_, _)
RECURSIVE SizeFrom(_, _, _)
Size(h, i) == 1 + SizeFrom(h, i, 1)
SizeFrom(h, i, k) ==
  IF k > Len(h[i].Children) THEN 0
  ELSE Size(h, h[i].Children[k]) + SizeFrom(h, i, k + 1)

DoCopy(i) ==
  /\ Len(items) + Size(items, i) <= MaxHeap
  /\ \E r \in {ItemCopy(items, i)} :
       /\ items' = r.h
       /\ ret' = Ret("Copy", i, Nil, r.item, r.err)
  /\ UNCHANGED <<matchVars, otherVars>>

\* option(item) on an item that exists: WithAttribute(k, v)(item), ...
DoOption(i, opt) ==
  /\ \E r \in {ApplyOption(items, i, opt)} :
       /\ items' = r.h
       /\ ret' = Ret("Option", i, opt, Nil, r.err)
  /\ UNCHANGED <<matchVars, otherVars>>

\* i.AddChild("c"): a new child under any item.
DoAddNewChild(i) ==
  /\ Len(items) < MaxHeap
  /\ \E r \in {AddChildValue(items, i, "c", <<>>)} :
       /\ items' = r.h
       /\ ret' = Ret("AddChildValue", i, Nil, r.item, r.err)
  /\ UNCHANGED <<matchVars, otherVars>>

\* i.SetIsCurrent().
DoSetCurrent(i) ==
  /\ items' = SetIsCurrent(items, i)
  /\ ret' = Ret("SetCurrent", i, Nil, Nil, NoError)
  /\ UNCHANGED <<matchVars, otherVars>>

\* The options applied to items that exist: an entry written into a map, a
\* map replaced by a new one, a write through the Current pointer.
BagOptions ==
  {WithAttribute("k", AnyString("v")), WithAttributes(Ptr(EmptyMap)), WithCurrent(Ptr(FALSE))}

\* A tree of MaxCopy items; copies are taken and any item is changed while
\* the heap has room.
InitCopy ==
  /\ \E pv \in ParentVectors(MaxCopy) : items = TreeOf(MaxCopy, pv)
  /\ ret = Ret("init", NilItem, Nil, Nil, NoError)
  /\ MatcherIdle
  /\ OthersIdle

NextCopy ==
  \E i \in DOMAIN items :
    \/ DoCopy(i)
    \/ \E opt \in BagOptions : DoOption(i, opt)
    \/ DoAddNewChild(i)
    \/ DoSetCurrent(i)

SpecCopy == InitCopy /\ [][NextCopy]_vars

\* ------------------------------------------------------------------ NewItem
\* The forest fv of n items: item i under fv[i], or a root when fv[i] is nil.
ForestVectors(n) == {fv \in [1 .. n -> 0 .. n] : \A i \in 1 .. n : fv[i] < i}

RECURSIVE Plant(_, _, _)
Plant(h, fv, i) ==
  IF i > Len(h) THEN h
  ELSE Plant(IF fv[i] = NilItem THEN h ELSE AddChild(h, fv[i], i).h, fv, i + 1)

ForestOf(n, fv) == Plant(Roots(n), fv, 1)

\* The options a call of NewItem may be given, the items of h at hand.
OptionsOver(h) ==
  {WithDisplay(b) : b \in BOOLEAN}
    \cup {WithAttribute("k", AnyString(v)) : v \in {"v", "w"}}
    \cup {WithAttributes(Ptr("k" :> AnyString("u"))), WithExtras(Ptr(EmptyMap)),
          WithLinkAttributes(Nil),
          WithLinkAttribute("k", AnyString("v")), WithLabelAttribute("k", AnyString("v")),
          WithChildrenAttribute("k", AnyString("v")), WithLabel("n")}
    \cup {WithCurrent(p) : p \in {Nil, Ptr(TRUE)}}
    \cup {WithChild(c) : c \in DOMAIN h}
    \cup {WithParent(c) : c \in DOMAIN h}
    \cup {Failing(e) : e \in {"e1", "e2"}}

OptionListsOver(h) ==
  UNION {[1 .. n -> OptionsOver(h)] : n \in 0 .. MaxOptions}

\* NewItem("n", options...), once, among the items of the forest.
DoNewItemWith(options) ==
  /\ Len(items) <= MaxOld
  /\ \E r \in {NewItem(items, "n", options)} :
       /\ items' = r.h
       /\ ret' = Ret("NewItemWith", NilItem, options, r.item, r.err)
  /\ UNCHANGED <<matchVars, otherVars>>

\* The options NewOptions may be given: the pointer-taking ones, with nil and
\* with a pointer, and SetDepth, which allocates.
RenderOptions ==
  {WithDepth(p) : p \in {Nil, Ptr(1)}}
    \cup {WithMatchingDepth(p) : p \in {Nil, Ptr(1)}}
    \cup {OptSetDepth(2), OptSetMatchingDepth(2)}

RenderOptionLists == UNION {[1 .. n -> RenderOptions] : n \in 0 .. MaxOptions - 1}

\* NewOptions(options...).
DoNewOptions(options) ==
  /\ \E o \in {NewOptions(options)} :
       ret' = Ret("NewOptions", NilItem, options, o,
                  IF Panics(o) THEN o.panic ELSE NoError)
  /\ UNCHANGED <<items, matchVars, otherVars>>

InitNew ==
  /\ \E fv \in ForestVectors(MaxOld) : items = ForestOf(MaxOld, fv)
  /\ ret = Ret("init", NilItem, Nil, Nil, NoError)
  /\ MatcherIdle
  /\ OthersIdle

NextNew ==
  \/ \E options \in OptionListsOver(items) : DoNewItemWith(options)
  \/ \E b \in BOOLEAN : DoNewItemWith(<<WithExtra("k", AnyString("v")), WithSafeLabel(b)>>)
  \/ \E options \in RenderOptionLists : DoNewOptions(options)

SpecNew == InitNew /\ [][NextNew]_vars

\* ------------------------------------------------------------------ ReorderChildren
\* Position is an int of PosBits bits: the values it takes, and the value an
\* arithmetic result wraps around to.
MinInt == -(2 ^ (PosBits - 1))
MaxInt == 2 ^ (PosBits - 1) - 1
Wrap(x) == ((x - MinInt) % (2 ^ PosBits)) + MinInt

\* The comparator ReorderChildren hands to slices.SortFunc.
Compare(h, a, b) == Wrap(h[a].Position - h[b].Position)

\* slices.SortFunc on a slice of at most 12 elements is an insertion sort:
\* element j moves down while the comparator puts it before its neighbour.
RECURSIVE Sink(_, _, _)
Sink(h, s, j) ==
  IF j > 1 /\ Compare(h, s[j], s[j - 1]) < 0
  THEN Sink(h, [s EXCEPT ![j] = s[j - 1], ![j - 1] = s[j]], j - 1)
  ELSE s

RECURSIVE InsertionSort(_, _, _)
InsertionSort(h, s, i) ==
  IF i > Len(s) THEN s ELSE InsertionSort(h, Sink(h, s, i), i + 1)

SortFunc(h, s) == InsertionSort(h, s, 2)

\* (a ReorderChildren that leaves the children as they are)
ReorderChildrenKeeps(h, i) == h

\* i.ReorderChildren().
ReorderChildren(h, i) == [h EXCEPT ![i].Children = SortFunc(h, @)]

DoReorderChildren(i) ==
  /\ items' = ReorderChildren(items, i)
  /\ ret' = Ret("ReorderChildren", i, Nil, Nil, NoError)
  /\ UNCHANGED <<matchVars, otherVars>>

\* A parent with up to MaxSiblings children, attached in the order 2, 3, ...,
\* each with any Position.
InitReorder ==
  /\ \E n \in 0 .. MaxSiblings :
       \E pos \in [1 .. n + 1 -> MinInt .. MaxInt] :
         items = [i \in 1 .. n + 1 |->
                    [TreeOf(n + 1, [j \in 2 .. n + 1 |-> 1])[i]
                       EXCEPT !.Name = ItemNames[i], !.Position = pos[i]]]
  /\ ret = Ret("init", NilItem, Nil, Nil, NoError)
  /\ MatcherIdle
  /\ OthersIdle

NextReorder == \E i \in DOMAIN items : DoReorderChildren(i)

SpecReorder == InitReorder /\ [][NextReorder]_vars

\* ------------------------------------------------------------------ passes
\* SpecPasses: render passes of one renderer under changing requests.

\* The options a Render call is given on top of the renderer's own.
PassOptions ==
  {<<>>, <<WithClearMatcher(FALSE)>>,
   <<WithClearMatcher(FALSE), RendererWithExtra("k", AnyString("v"))>>,
   <<RendererWithExtra("compressed", AnyBool(TRUE)), WithAllowSafeLabels(TRUE)>>,
   <<RendererWithExtra("compressed", AnyString("v"))>>}

\* r.Render(ctx, items[i], options...); the call record keeps the options and
\* the cache the call found.
RenderWith(i, options) ==
  /\ \E r \in {Render(items, cache, voters, votes, ropts, i, options)} :
       /\ cache' = r.cache
       /\ ropts' = r.options
       /\ ret' = Ret("Render", i, [options |-> options, found |-> cache],
                     r.out, r.err)
  /\ UNCHANGED <<items, voters, effect, first, votes, concVars>>

\* Another request: the voter's answers are those of the new context.
NewRequest(cur) ==
  /\ votes' = [i \in DOMAIN items |-> <<IF cur[i] THEN Ptr(TRUE) ELSE Nil>>]
  /\ votes' # votes
  /\ ret' = Ret("NewRequest", NilItem, Nil, Nil, NoError)
  /\ UNCHANGED <<items, voters, cache, effect, first, concVars, ropts>>

\* The budgets of the renderer: none, or MaxDepth levels.
PassBudgets == {Nil, Ptr(MaxDepth)}

\* What the last item of these menus is dressed with: a class of its own,
\* or a safe_label extra that is no bool.
PassDressings ==
  {WithAttribute("class", AnyString("mine")),
   WithExtra("safe_label", AnyString("v"))}

\* Menus of MaxMenu displayed items, the voter matching any set of them, a
\* renderer built with or without each budget (without, when the last item
\* has the safe_label extra).
InitPasses ==
  /\ \E pv \in ParentVectors(MaxMenu), cur \in [1 .. MaxMenu -> BOOLEAN],
        dress \in PassDressings :
       /\ items = Menu(MaxMenu, pv, [i \in 1 .. MaxMenu |-> TRUE],
                       [i \in 1 .. MaxMenu |-> TRUE], dress)
       /\ votes = [i \in 1 .. MaxMenu |-> <<IF cur[i] THEN Ptr(TRUE) ELSE Nil>>]
  /\ \E depth \in PassBudgets, mdepth \in PassBudgets :
       /\ ropts = NewListRenderer(depth, mdepth)
       /\ Bag(items, MaxMenu, "Extras") # EmptyMap => (depth = Nil /\ mdepth = Nil)
  /\ ret = Ret("init", NilItem, Nil, <<>>, NoError)
  /\ voters = NewCoreMatcher(1)
  /\ cache = EmptyMap
  /\ effect = NoEffect
  /\ first = EmptyMap
  /\ ConcIdle

NextPasses ==
  \/ \E i \in {j \in DOMAIN items : items[j].Children # <<>>},
        options \in PassOptions : RenderWith(i, options)
  \/ \E cur \in [DOMAIN items -> BOOLEAN] : NewRequest(cur)

SpecPasses == InitPasses /\ [][NextPasses]_vars

\* ------------------------------------------------------------------ example
\* URLVoter.MatchItem for a request whose URL has the given path: &true when
\* the path is the item's URI, else no vote.
URLVoter(path, item) == IF path = item.URI THEN Ptr(TRUE) ELSE Nil

VotesFor(h, path) == [i \in DOMAIN h |-> <<URLVoter(path, h[i])>>]

ExamplePath == "/blog/article-test-1"
ExamplePaths == {"/", "/about", "/blog", ExamplePath, "/contact"}

\* The menu of example/main.go, the items made in the order Go evaluates the
\* calls: home, about, article1, blog, root.
Example ==
  LET home == NewItem(<<>>, "home", <<WithLabel("Home"), WithURI("/")>>)
      about == NewItem(home.h, "about",
                       <<WithLabel("About"), WithURI("/about"), WithPosition(2)>>)
      article1 == NewItem(about.h, "article1",
                          <<WithLabel("Article 1"), WithURI(ExamplePath)>>)
      blog == NewItem(article1.h, "blog",
                      <<WithLabel("Blog"), WithURI("/blog"), WithPosition(1),
                        WithChild(article1.item)>>)
  IN NewItem(blog.h, "root",
             <<WithChild(home.item), WithChild(about.item), WithChild(blog.item)>>)

\* TemplateRenderer.Render(ctx, item, options...): the theme's template is
\* handed the matcher and asks it what it likes; asks lists the items it asks
\* IsCurrent about, in its order.  What the call does to the matcher is that
\* and the Clear at its end.
RECURSIVE ThemeAsks(_, _, _, _, _, _)
ThemeAsks(h, c, vs, vt, asks, k) ==
  IF k > Len(asks) THEN c
  ELSE ThemeAsks(h, IsCurrent(h, c, vs, asks[k], vt[asks[k]]).cache, vs, vt, asks, k + 1)

\* The template the theme is asked for when the options name none.
MenuTemplate == "@menu/menu.html"

\* What a theme may return for an error: none, or one of its own.
ThemeErrors == {NoError, "theme: template not found"}

\* The template's name is asserted to be a string before the theme is
\* called; the theme's error, themeErr, is returned after the Clear.
TemplateRender(h, c, vs, vt, ro, asks, themeErr, options) ==
  Only({
    IF Panics(opts) THEN [cache |-> c, err |-> opts.panic]
    ELSE IF ~IsString(OptionsExtra(opts, "template", AnyString(MenuTemplate)))
    THEN [cache |-> c, err |-> PanicNotString]
    ELSE [cache |-> IF opts.ClearMatcher
                    THEN Clear(ThemeAsks(h, c, vs, vt, asks, 1))
                    ELSE ThemeAsks(h, c, vs, vt, asks, 1),
          err |-> themeErr] :
    opts \in {Apply(Copy(ro), options, 1)}})

\* The items of the tree under i in the order of a walk from i down.
RECURSIVE Walk(_, _)
RECURSIVE WalkFrom(_, _, _)
Walk(h, i) == <<i>> \o WalkFrom(h, i, 1)
WalkFrom(h, i, k) ==
  IF k > Len(h[i].Children) THEN <<>>
  ELSE Walk(h, h[i].Children[k]) \o WalkFrom(h, i, k + 1)

\* A template that asks about every item under i, about one of them, or
\* about none, and a theme that returns any of its errors.
RenderTemplate(i, options) ==
  /\ \E asks \in {<<>>, Walk(items, i)}
                   \cup {<<Walk(items, i)[k]>> : k \in 1 .. Len(Walk(items, i))},
        themeErr \in ThemeErrors :
       \E r \in {TemplateRender(items, cache, voters, votes, ropts, asks,
                                 themeErr, options)} :
         /\ cache' = r.cache
         /\ ret' = Ret("TemplateRender", i, [options |-> options, found |-> cache],
                       <<>>, r.err)
  /\ UNCHANGED <<items, voters, effect, first, votes, concVars, ropts>>

\* The state main reaches before it renders: the example's menu with the
\* root's children reordered, a matcher with the URL voter, renderers with
\* the default options, and a request for one of a few paths.
InitExample ==
  /\ items = ReorderChildren(Example.h, Example.item)
  /\ \E path \in ExamplePaths : votes = VotesFor(items, path)
  /\ ropts = NewOptions(<<>>)
  /\ ret = Ret("init", NilItem, Nil, <<>>, NoError)
  /\ voters = NewCoreMatcher(1)
  /\ cache = EmptyMap
  /\ effect = NoEffect
  /\ first = EmptyMap
  /\ ConcIdle

\* The options of the example's calls: none, the cache kept, a template name
\* that is no string.
ExampleOptions ==
  {<<>>, <<WithClearMatcher(FALSE)>>,
   <<RendererWithExtra("template", AnyBool(TRUE))>>}

NextExample ==
  \E i \in DOMAIN items, options \in ExampleOptions :
    \/ RenderTemplate(i, options)
    \/ RenderWith(i, options)

SpecExample == InitExample /\ [][NextExample]_vars

\* ------------------------------------------------------------------ Slice
\* o.Slice(): the eleven options it lists, in its order, built from o's
\* fields (WithCurrentAsLink is not among them).
Slice(o) ==
  <<WithDepth(o.Depth), WithMatchingDepth(o.MatchingDepth),
    WithCurrentClass(o.CurrentClass), WithAncestorClass(o.AncestorClass),
    WithFirstClass(o.FirstClass), WithLastClass(o.LastClass),
    WithLeafClass(o.LeafClass), WithBranchClass(o.BranchClass),
    WithAllowSafeLabels(o.AllowSafeLabels), WithClearMatcher(o.ClearMatcher),
    RendererWithExtras(o.Extras)>>

\* The Options values Slice is called on: every combination of nil and
\* non-nil budgets, class names, flags and Extras (nil, empty, one entry).
Budgets == {Nil} \cup {Ptr(d) : d \in 0 .. MaxDepth}
ClassNames == {"", "x"}
ExtrasMaps == {Nil, Ptr(EmptyMap), Ptr("k" :> AnyString("v"))}
OptionsValues ==
  [Depth : Budgets, MatchingDepth : Budgets,
   CurrentClass : ClassNames, AncestorClass : ClassNames,
   FirstClass : {"first"}, LastClass : {"last"},
   LeafClass : ClassNames, BranchClass : {""},
   CurrentAsLink : BOOLEAN, AllowSafeLabels : BOOLEAN,
   ClearMatcher : BOOLEAN, Extras : ExtrasMaps]

\* NewOptions(o.Slice()...) for the Options o the renderer holds.
DoSlice ==
  /\ \E o \in {NewOptions(Slice(ropts))} :
       ret' = Ret("Slice", NilItem, Slice(ropts), o,
                  IF Panics(o) THEN o.panic ELSE NoError)
  /\ UNCHANGED <<items, matchVars, concVars, ropts>>

\* o.SetCurrentAsLink(b), o.SetDepth(d): the holder changes its Options.
DoSetOptions(opt) ==
  /\ ropts' = ApplyRenderOption(ropts, opt)
  /\ ret' = Ret("Set", NilItem, opt, Nil, NoError)
  /\ UNCHANGED <<items, matchVars, concVars>>

InitSlice ==
  /\ items = <<>>
  /\ ropts \in OptionsValues
  /\ ret = Ret("init", NilItem, Nil, Nil, NoError)
  /\ MatcherIdle
  /\ ConcIdle

NextSlice ==
  \/ DoSlice
  \/ DoSetOptions(WithCurrentAsLink(TRUE))
  \/ DoSetOptions(OptSetDepth(MaxDepth))

SpecSlice == InitSlice /\ [][NextSlice]_vars

\* ---------------- SpecDescent: render passes whose budgets outlast the menu
\* The budgets a pass may start with: none, or any from 1 up to one more
\* than the deepest menu needs.
DescentBudgets == {Nil} \cup {Ptr(d) : d \in 1 .. MaxDepth + 1}

\* Menus of MaxMenu items, all displayed and showing their children, the
\* voter matching any set of items.
InitDescent ==
  /\ \E pv \in ParentVectors(MaxMenu), cur \in [1 .. MaxMenu -> BOOLEAN] :
       /\ items = Menu(MaxMenu, pv, [i \in 1 .. MaxMenu |-> TRUE],
                       [i \in 1 .. MaxMenu |-> TRUE],
                       WithAttribute("class", AnyString("mine")))
       /\ votes = [i \in 1 .. MaxMenu |-> <<IF cur[i] THEN Ptr(TRUE) ELSE Nil>>]
  /\ \E depth \in DescentBudgets, mdepth \in DescentBudgets :
       ropts = NewListRenderer(depth, mdepth)
  /\ ret = Ret("init", NilItem, Nil, <<>>, NoError)
  /\ voters = NewCoreMatcher(1)
  /\ cache = EmptyMap
  /\ effect = NoEffect
  /\ first = EmptyMap
  /\ ConcIdle

NextDescent ==
  \E i \in {j \in DOMAIN items : items[j].Children # <<>>}, clear \in BOOLEAN :
    CallRender(i, clear)

SpecDescent == InitDescent /\ [][NextDescent]_vars

\* ---------------- SpecTree: every call that builds or rearranges the tree
\* The child-giving options of a call, the items of h at hand, and an option
\* of the caller's that fails.
TreeOptions(h) ==
  {WithChild(c) : c \in DOMAIN h}
    \cup {WithChildren(cs) :
             cs \in UNION {[1 .. n -> DOMAIN h] : n \in 0 .. MaxGiven - 1}}
    \cup {Failing("e1")}

TreeOptionLists(h) == UNION {[1 .. n -> TreeOptions(h)] : n \in 0 .. MaxGiven}

\* NewItem("n", options...).
DoNewItemOver(options) ==
  /\ Len(items) <= MaxOld
  /\ \E r \in {NewItem(items, "n", options)} :
       /\ items' = r.h
       /\ ret' = Ret("NewItem", NilItem, options, r.item, r.err)
  /\ UNCHANGED <<matchVars, otherVars>>

\* p.AddChild("c", options...): the child is made by NewItem.
DoAddChildValueOver(p, options) ==
  /\ Len(items) <= MaxOld
  /\ \E r \in {AddChildValue(items, p, "c", options)} :
       /\ items' = r.h
       /\ ret' = Ret("AddChildValue", p, options, r.item, r.err)
  /\ UNCHANGED <<matchVars, otherVars>>

\* Whether a descent through the Children lists from i can take n steps. On
\* a heap of n items such a descent meets an item twice: the recursion of
\* Copy over it never returns.
RECURSIVE Descends(_, _, _)
Descends(h, i, n) ==
  IF n = 0 THEN TRUE
  ELSE \E k \in 1 .. Len(h[i].Children) : Descends(h, h[i].Children[k], n - 1)

Returns(h, i) == ~Descends(h, i, Len(h))

\* A forest of MaxOld items to begin with.
InitTree ==
  /\ \E fv \in ForestVectors(MaxOld) : items = ForestOf(MaxOld, fv)
  /\ ret = Ret("init", NilItem, Nil, Nil, NoError)
  /\ MatcherIdle
  /\ OthersIdle

NextTree ==
  \/ \E options \in TreeOptionLists(items) : DoNewItemOver(options)
  \/ \E p \in DOMAIN items, options \in TreeOptionLists(items) :
       DoAddChildValueOver(p, options)
  \/ \E p \in DOMAIN items, c \in DOMAIN items : DoAddChild(p, c)
  \/ \E i \in {j \in DOMAIN items : Returns(items, j)} : DoCopy(i)
  \/ \E i \in DOMAIN items : DoReorderChildren(i)

SpecTree == InitTree /\ [][NextTree]_vars

\* ---------------- SpecShared: render passes of several requests at once
\* Goroutines render the example's menu through list renderers that share the
\* matcher, each for a request of its own.  What a pass shares with the others
\* is the matcher's cache, which it reaches in IsCurrent only: the read under
\* the read lock (together with the voters, which run under it), the write
\* under the write lock after a miss, and the Clear at the end of Render.
\* Each of the three is a step, and the passes interleave between any two of
\* them.  Whatever a goroutine does between two of its steps depends on what
\* its reads have told it so far, so its position in Render is given by the
\* list of those answers: Ptr(b) for a hit of value b, Nil for a miss.

\* The matcher as a goroutine has seen it: the answers of its reads so far,
\* the number of them the run has consumed plus one, and the item whose read
\* comes next once they are used up (NilItem until then).
Told(log) == [log |-> log, k |-> 1, ask |-> NilItem]

\* m.IsCurrent(ctx, item) for the goroutine: the forced flag without a read;
\* else the next read's answer, a hit's value or, after a miss, the voters'
\* verdict.  When the answers are used up the run is at this read.
IsCurrentTold(h, s, vs, item, ans) ==
  IF h[item].Current # Nil THEN [val |-> Deref(h[item].Current), cache |-> s]
  ELSE IF s.ask # NilItem THEN [val |-> FALSE, cache |-> s]
  ELSE IF s.k > Len(s.log) THEN [val |-> FALSE, cache |-> [s EXCEPT !.ask = item]]
  ELSE [val |-> IF s.log[s.k] # Nil THEN Deref(s.log[s.k])
                ELSE RunVoters(vs, ans, 1).current,
        cache |-> [s EXCEPT !.k = @ + 1]]

\* IsAncestor and the renderer's functions for the goroutine: those above,
\* statement for statement, with the matcher as the goroutine has seen it in
\* the place of the cache.  A call of IsAncestor that is at a read returns to
\* nobody: the run stops there.  The answers of the reads may differ from one
\* read of an item to the next, since other goroutines write and clear the
\* cache, so the recursion is known never to return only when it has nested
\* deeper than there are items without a read in between: lvl counts the
\* calls nested since the last read, whose number is k0 at the call's entry.
RECURSIVE IsAncestorTold(_, _, _, _, _, _, _)
RECURSIVE AncestorLoopTold(_, _, _, _, _, _, _, _, _)
AncestorLoopTold(h, s, vs, vt, item, k, depth, lvl, k0) ==
  IF k > Len(h[item].Children)
  THEN [val |-> FALSE, cache |-> s, depth |-> depth, diverged |-> FALSE]
  ELSE Only({
    IF r1.cache.ask # NilItem
    THEN [val |-> FALSE, cache |-> r1.cache, depth |-> depth, diverged |-> FALSE]
    ELSE IF r1.val
    THEN [val |-> TRUE, cache |-> r1.cache, depth |-> depth, diverged |-> FALSE]
    ELSE Only({
      IF r2.diverged \/ r2.val \/ r2.cache.ask # NilItem THEN r2
      ELSE AncestorLoopTold(h, r2.cache, vs, vt, item, k + 1, r2.depth, lvl, k0) :
      r2 \in {IsAncestorTold(h, r1.cache, vs, vt, h[item].Children[k], depth,
                              IF r1.cache.k = k0 THEN lvl + 1 ELSE 1)}}) :
    r1 \in {IsCurrentTold(h, s, vs, h[item].Children[k], vt[h[item].Children[k]])}})

IsAncestorTold(h, s, vs, vt, item, depth, lvl) ==
  IF depth # Nil /\ Deref(depth) = 0
  THEN [val |-> FALSE, cache |-> s, depth |-> depth, diverged |-> FALSE]
  ELSE IF depth = Nil /\ lvl > Len(h)
  THEN [val |-> FALSE, cache |-> s, depth |-> depth, diverged |-> TRUE]
  ELSE AncestorLoopTold(h, s, vs, vt, item, 1,
                        IF depth # Nil THEN Ptr(Deref(depth) - 1) ELSE Nil, lvl, s.k)

renderItemClassesTold(h, s, vs, vt, item, o) ==
  IF ~IsString(Attribute(h, item, "class", AnyString("")))
  THEN [classes |-> <<>>, cache |-> s, options |-> o, err |-> PanicNotString]
  ELSE Only({
    Only({
      IF anc.diverged
      THEN [classes |-> <<>>, cache |-> anc.cache, options |-> o, err |-> StackOverflow]
      ELSE Only({[classes |-> cl.classes,
                  cache |-> anc.cache,
                  options |-> [o EXCEPT !.MatchingDepth = anc.depth],
                  err |-> cl.err] :
                 cl \in {ClassList(h, item, o,
                           IF cur.val THEN <<o.CurrentClass>>
                           ELSE IF anc.val THEN <<o.AncestorClass>> ELSE <<>>)}}) :
      anc \in {IF cur.val
               THEN [val |-> FALSE, cache |-> cur.cache, depth |-> o.MatchingDepth,
                     diverged |-> FALSE]
               ELSE IsAncestorTold(h, cur.cache, vs, vt, item, o.MatchingDepth, 1)}}) :
    cur \in {IsCurrentTold(h, s, vs, item, vt[item])}})

renderLinkTold(h, s, vs, vt, item, o) ==
  Only({
    IF renderLabel(h, item, o) # NoError
    THEN [out |-> <<>>, cache |-> cur.cache, err |-> renderLabel(h, item, o)]
    ELSE IF format("link", Level(h, item), o) # NoError
    THEN [out |-> <<>>, cache |-> cur.cache, err |-> format("link", Level(h, item), o)]
    ELSE [out |-> <<[typ |-> IF h[item].URI # "" /\ (~cur.val \/ o.CurrentAsLink)
                             THEN "a" ELSE "span",
                     item |-> item]>>,
          cache |-> cur.cache, err |-> NoError] :
    cur \in {IF h[item].URI = "" THEN [val |-> FALSE, cache |-> s]
             ELSE IsCurrentTold(h, s, vs, item, vt[item])}})

RECURSIVE renderListTold(_, _, _, _, _, _)
RECURSIVE renderChildrenFromTold(_, _, _, _, _, _, _)
RECURSIVE renderItemTold(_, _, _, _, _, _)
renderListTold(h, s, vs, vt, item, o) ==
  IF IsStop(o) \/ ~HasChildren(h, item) \/ ~h[item].DisplayChildren
  THEN [out |-> <<>>, cache |-> s, options |-> o, err |-> NoError]
  ELSE IF format("ul", Level(h, item), o) # NoError
  THEN [out |-> <<>>, cache |-> s, options |-> o,
        err |-> format("ul", Level(h, item), o)]
  ELSE Only({[out |-> <<[typ |-> "ul", item |-> item]>> \o r.out
                      \o (IF r.err = NoError
                          THEN <<[typ |-> "/ul", item |-> item]>> ELSE <<>>),
              cache |-> r.cache,
              options |-> SubMatchingDepth(SubDepth(o)),
              err |-> r.err] :
             r \in {renderChildrenFromTold(h, s, vs, vt, item,
                                       SubMatchingDepth(SubDepth(o)), 1)}})

renderChildrenFromTold(h, s, vs, vt, item, o, k) ==
  IF k > Len(h[item].Children) THEN [out |-> <<>>, cache |-> s, err |-> NoError]
  ELSE Only({
    IF r.err # NoError THEN r
    ELSE Only({[out |-> r.out \o rest.out, cache |-> rest.cache, err |-> rest.err] :
               rest \in {renderChildrenFromTold(h, r.cache, vs, vt, item, o, k + 1)}}) :
    r \in {renderItemTold(h, s, vs, vt, h[item].Children[k], Copy(o))}})

renderItemTold(h, s, vs, vt, item, o) ==
  IF ~h[item].Display THEN [out |-> <<>>, cache |-> s, err |-> NoError]
  ELSE Only({
    IF k.err # NoError THEN [out |-> <<>>, cache |-> k.cache, err |-> k.err]
    ELSE IF BagRef(h, item, "Attributes") = Nil
    THEN [out |-> <<>>, cache |-> k.cache, err |-> PanicNilMap]
    ELSE IF format("li", Level(h, item), k.options) # NoError
    THEN [out |-> <<>>, cache |-> k.cache,
          err |-> format("li", Level(h, item), k.options)]
    ELSE Only({
      IF link.err # NoError
      THEN [out |-> <<[typ |-> "li", item |-> item,
                       class |-> HTMLClasses(k.classes),
                       Depth |-> o.Depth, MatchingDepth |-> o.MatchingDepth]>>,
            cache |-> link.cache, err |-> link.err]
      ELSE IF ~IsString(ChildrenAttribute(h, item, "class", AnyString("")))
              \/ BagRef(h, item, "ChildrenAttributes") = Nil
      THEN [out |-> <<[typ |-> "li", item |-> item,
                       class |-> HTMLClasses(k.classes),
                       Depth |-> o.Depth, MatchingDepth |-> o.MatchingDepth]>>
                    \o link.out,
            cache |-> link.cache,
            err |-> IF ~IsString(ChildrenAttribute(h, item, "class", AnyString("")))
                    THEN PanicNotString ELSE PanicNilMap]
      ELSE Only({[out |-> <<[typ |-> "li", item |-> item,
                             class |-> HTMLClasses(k.classes),
                             Depth |-> o.Depth, MatchingDepth |-> o.MatchingDepth]>>
                          \o link.out \o lst.out
                          \o (IF lst.err = NoError
                              THEN <<[typ |-> "/li", item |-> item]>> ELSE <<>>),
                  cache |-> lst.cache, err |-> lst.err] :
                 lst \in {renderListTold(h, link.cache, vs, vt, item, k.options)}}) :
      link \in {renderLinkTold(h, k.cache, vs, vt, item, k.options)}}) :
    k \in {renderItemClassesTold(h, s, vs, vt, item, o)}})

\* The locals of a Render call: the request's path, the options Render
\* derived, the answers of its reads so far, the item and the verdict of the
\* write that is due after a miss, and whether every pass it has overlapped
\* with so far was for the same path.
PassLocals(i, path, o, log, item, current, same) ==
  [op |-> "Render", root |-> i, path |-> path, options |-> o, log |-> log,
   item |-> item, current |-> current, same |-> same]

\* The goroutines that are in their pass.  Each goroutine serves one request:
\* it is idle, then in its pass, then done.
Passes == {t \in Threads : pc[t] \notin {"idle", "done"}}

SharedUnchanged == UNCHANGED <<items, voters, votes, effect, first, mu, renderVars>>

\* The run of renderList in the pass of goroutine t as far as the answers of
\* its reads take it.
PassRun(t) ==
  renderListTold(items, Told(loc[t].log), voters, VotesFor(items, loc[t].path),
                 loc[t].root, loc[t].options)

\* part_002:58  Render derives its options.
PassStart(t, i, path) ==
  /\ pc[t] = "idle"
  /\ \E opts \in {Apply(Copy(Named(ropts)), <<>>, 1)} :
       \E same \in {\A u \in Passes : loc[u].path = path /\ loc[u].same} :
         loc' = [u \in Threads |->
                   IF u = t THEN PassLocals(i, path, opts, <<>>, NilItem, FALSE, same)
                   ELSE IF u \in Passes /\ loc[u].path # path
                   THEN [loc[u] EXCEPT !.same = FALSE] ELSE loc[u]]
  /\ pc' = [pc EXCEPT ![t] = "rd_run"]
  /\ UNCHANGED <<cache, ret>>
  /\ SharedUnchanged

\* matcher.go:68-80  the next read of the cache: a hit is returned, after a
\* miss the voters are asked and the write is due.
PassRead(t) ==
  /\ pc[t] = "rd_run"
  /\ \E x \in {PassRun(t).cache.ask} :
       /\ x # NilItem
       /\ IF x \in DOMAIN cache
          THEN /\ loc' = [loc EXCEPT ![t].log = Append(@, Ptr(cache[x]))]
               /\ pc' = pc
          ELSE /\ loc' = [loc EXCEPT
                            ![t].log = Append(@, Nil),
                            ![t].item = x,
                            ![t].current =
                              RunVoters(voters, VotesFor(items, loc[t].path)[x], 1).current]
               /\ pc' = [pc EXCEPT ![t] = "rd_write"]
  /\ UNCHANGED <<cache, ret>>
  /\ SharedUnchanged

\* matcher.go:82-87  the verdict is stored.
PassWrite(t) ==
  /\ pc[t] = "rd_write"
  /\ cache' = (loc[t].item :> loc[t].current) @@ cache
  /\ pc' = [pc EXCEPT ![t] = "rd_run"]
  /\ loc' = [loc EXCEPT ![t].item = NilItem, ![t].current = FALSE]
  /\ UNCHANGED ret
  /\ SharedUnchanged

\* part_002:62-66  renderList has returned: the matcher is cleared if the
\* options say so, and Render returns.
PassClear(t) ==
  /\ pc[t] = "rd_run"
  /\ \E r \in {PassRun(t)} :
       /\ r.cache.ask = NilItem
       /\ cache' = IF r.err = NoError /\ loc[t].options.ClearMatcher
                   THEN Clear(cache) ELSE cache
       /\ ret' = Ret("Render", loc[t].root,
                     [path |-> loc[t].path, same |-> loc[t].same], r.out, r.err)
  /\ pc' = [pc EXCEPT ![t] = "done"]
  /\ loc' = [loc EXCEPT ![t] = IdleLocals]
  /\ SharedUnchanged

\* The example's menu in the order ReorderChildren gives it, the URL voter,
\* renderers with the default options.
InitShared ==
  /\ items = ReorderChildren(Example.h, Example.item)
  /\ votes = EmptyMap
  /\ ropts = NewOptions(<<>>)
  /\ ret = Ret("init", NilItem, Nil, <<>>, NoError)
  /\ voters = NewCoreMatcher(1)
  /\ cache = EmptyMap
  /\ effect = NoEffect
  /\ first = EmptyMap
  /\ mu = Unlocked
  /\ pc = [t \in Threads |-> "idle"]
  /\ loc = [t \in Threads |-> IdleLocals]

NextShared ==
  \E t \in Threads :
    \/ \E i \in {j \in DOMAIN items : items[j].Children # <<>>}, path \in ExamplePaths :
         PassStart(t, i, path)
    \/ PassRead(t)
    \/ PassWrite(t)
    \/ PassClear(t)

SpecShared == InitShared /\ [][NextShared]_vars

\* ------------------------------------------------------------------ claims

\* C1: p.AddChild(c) for an item c whose Parent is already non-nil returns
\* ErrItemBelongsToAnotherMenu and leaves every item's Parent and Children
\* (the whole heap) exactly as before the call.
C1_AddChildOwned ==
  [][(ret'.op = "AddChild" /\ items[ret'.arg].Parent # NilItem)
       => (/\ ret'.err = ErrItemBelongsToAnotherMenu
           /\ ret'.val = NilItem
           /\ items' = items)]_vars

\* A rejected attach of an item that sits under another parent than the target.
C1_Witness ==
  /\ ret.op = "AddChild"
  /\ ret.err = ErrItemBelongsToAnotherMenu
  /\ items[ret.arg].Parent # NilItem
  /\ items[ret.arg].Parent # ret.item
  /\ Len(items[ret.item].Children) > 0

\* The verdict of the voter chain, stated from the answers: the answer of the
\* first voter in registration order that does not abstain, false when none.
Deciders(vs, ans) == {k \in 1 .. Len(vs) : ans[vs[k]] # Nil}
FirstDecider(vs, ans) ==
  CHOOSE k \in Deciders(vs, ans) : \A j \in Deciders(vs, ans) : k <= j
ChainVerdict(vs, ans) ==
  IF Deciders(vs, ans) = {} THEN FALSE ELSE Deref(ans[vs[FirstDecider(vs, ans)]])

\* C2: when item.Current is non-nil, IsCurrent returns *item.Current whatever
\* the voters would answer and whatever the cache holds for the item, and the
\* call neither reads nor writes the cache, which is the same before and after.
C2_ForcedCurrent ==
  [][(ret'.op = "IsCurrent" /\ items[ret'.item].Current # Nil)
       => (/\ ret'.val = Deref(items[ret'.item].Current)
           /\ cache' = cache
           /\ effect'.reads = 0
           /\ effect'.writes = 0)]_vars

\* A forced-false item reported not current although the voters say yes and
\* the cache still holds true for it.
C2_Witness ==
  /\ ret.op = "IsCurrent"
  /\ items[ret.item].Current = Ptr(FALSE)
  /\ ret.val = FALSE
  /\ ChainVerdict(voters, ret.arg) = TRUE
  /\ ret.item \in DOMAIN cache
  /\ cache[ret.item] = TRUE

\* C3: for an item without forced flag, every IsCurrent call returns what the
\* first call since the last Clear (or since construction) returned, whatever
\* the voters answer in the later call; the first call after a Clear runs the
\* voter chain again and returns its verdict for that call's answers.
C3_StickyUntilClear ==
  [][(ret'.op = "IsCurrent" /\ items[ret'.item].Current = Nil)
       => IF ret'.item \in DOMAIN first
          THEN ret'.val = first[ret'.item] /\ effect'.consulted = <<>>
          ELSE /\ ret'.val = ChainVerdict(voters, ret'.arg)
               /\ effect'.consulted # <<>> \/ voters = <<>>]_vars

\* A later call answers from the cache, without consulting a voter, although
\* the voters would now decide otherwise.
C3_Witness ==
  /\ ret.op = "IsCurrent"
  /\ items[ret.item].Current = Nil
  /\ ret.item \in DOMAIN first
  /\ effect.consulted = <<>>
  /\ effect.reads = 1
  /\ ret.val = first[ret.item]
  /\ ChainVerdict(voters, ret.arg) # ret.val

\* C4: on a cache miss for an item without forced flag, the voters are
\* consulted in registration order up to and including the first one that does
\* not abstain, its answer (yes or no) is returned, false is returned when all
\* abstain or none is registered, and the returned boolean is stored in the
\* cache, true or false.
C4_VoterChain ==
  [][(/\ ret'.op = "IsCurrent"
      /\ items[ret'.item].Current = Nil
      /\ ret'.item \notin DOMAIN cache)
       => (/\ ret'.val = ChainVerdict(voters, ret'.arg)
           /\ effect'.consulted =
                IF Deciders(voters, ret'.arg) = {} THEN voters
                ELSE SubSeq(voters, 1, FirstDecider(voters, ret'.arg))
           /\ DOMAIN cache' = DOMAIN cache \cup {ret'.item}
           /\ cache'[ret'.item] = ret'.val
           /\ \A j \in DOMAIN cache : cache'[j] = cache[j])]_vars

\* The first voter says no and a later one yes: only the first was consulted,
\* and the false verdict was stored.
C4_Witness ==
  /\ ret.op = "IsCurrent"
  /\ items[ret.item].Current = Nil
  /\ effect.writes = 1
  /\ Len(voters) >= 2
  /\ ret.arg[voters[1]] = Ptr(FALSE)
  /\ ret.arg[voters[2]] = Ptr(TRUE)
  /\ effect.consulted = <<voters[1]>>
  /\ ret.val = FALSE
  /\ ret.item \in DOMAIN cache /\ cache[ret.item] = FALSE

\* The proper ancestors of d, read off the Parent pointers.
RECURSIVE Up(_, _, _)
Up(h, d, n) ==
  IF n = 0 \/ h[d].Parent = NilItem THEN {}
  ELSE {h[d].Parent} \cup Up(h, h[d].Parent, n - 1)

\* The proper descendants of i: children, grandchildren, ...
Descendants(h, i) == {d \in DOMAIN h : i \in Up(h, d, Len(h))}

\* Whether item i is current: its forced flag, else the voters' verdict.
Status(i) ==
  IF items[i].Current # Nil THEN Deref(items[i].Current)
  ELSE ChainVerdict(voters, votes[i])

\* C5: with a nil depth, IsAncestor returns true iff some proper descendant of
\* the item, displayed or hidden, is current; whether the item itself is
\* current plays no part; and the call returns on every tree.
C5_AncestorUnbounded ==
  (ret.op = "IsAncestor" /\ ret.arg = Nil)
    => (/\ ~effect.diverged
        /\ ret.val <=> \E d \in Descendants(items, ret.item) : Status(d))

\* A current item with descendants, none of them current, is no ancestor.
C5_Witness ==
  /\ ret.op = "IsAncestor" /\ ret.arg = Nil
  /\ Status(ret.item)
  /\ Cardinality(Descendants(items, ret.item)) >= 2
  /\ ret.val = FALSE

\* The statements that read the cache map, and those that write or replace it.
CacheReads == {"ic_read"}
CacheWrites == {"ic_write", "cl_replace"}

\* C6: a goroutine about to read the cache holds the lock (shared or
\* exclusive), a goroutine about to write or replace it holds the lock
\* exclusively, and no goroutine is at a cache read or write while another is
\* at a cache write or at the replacement done by Clear.
C6_CacheUnderLock ==
  /\ \A t \in DOMAIN pc :
       /\ pc[t] \in CacheReads => (t \in mu.readers \/ mu.writer = t)
       /\ pc[t] \in CacheWrites => mu.writer = t
  /\ \A t \in DOMAIN pc, u \in DOMAIN pc :
       (t # u /\ pc[t] \in CacheWrites) => pc[u] \notin CacheReads \cup CacheWrites

\* Clear is about to replace the map while another goroutine, past its cache
\* miss, waits to write the value it computed.
C6_Witness ==
  \E t \in DOMAIN pc, u \in DOMAIN pc :
    /\ pc[t] = "cl_replace" /\ mu.writer = t
    /\ pc[u] = "ic_lock"
    /\ cache # EmptyMap

\* C7: with a pure voter and one context, every value in the cache is the
\* voter chain's verdict for its item, and every IsCurrent call, whether made
\* by a goroutine's caller or inside IsAncestor, returns that verdict (the
\* forced flag for a forced item), under every interleaving with Clear.
C7_RacingWritesAgree ==
  /\ \A i \in DOMAIN cache : cache[i] = ChainVerdict(voters, votes[i])
  /\ \A t \in DOMAIN pc :
       pc[t] \in {"ic_hit", "ic_unlock"}
         => loc[t].current = ChainVerdict(voters, votes[loc[t].item])
  /\ ret.op = "IsCurrent" => ret.val = Status(ret.item)

\* A goroutine is about to write the entry of an item that another goroutine,
\* racing on the same miss, has already written.
C7_Witness ==
  \E t \in DOMAIN pc :
    /\ pc[t] = "ic_write"
    /\ loc[t].item \in DOMAIN cache
    /\ loc[t].current = TRUE
    /\ cache[loc[t].item] = TRUE

\* The list items of the last Render's output, and the items they stand for.
ListItems ==
  IF ret.op = "Render"
  THEN {k \in 1 .. Len(ret.val) : ret.val[k].typ = "li"} ELSE {}
Rendered == {ret.val[k].item : k \in ListItems}
ClassesOf(k) == {ret.val[k].class[j] : j \in 1 .. Len(ret.val[k].class)}

\* How far below the rendered root an item lies.
RelDepth(d) == Level(items, d) - Level(items, ret.item)

\* Whether the last Render's depth budget reaches relative depth n.
WithinBudget(n) == ropts.Depth = Nil \/ n <= Deref(ropts.Depth)

\* Whether every item from the rendered root down to d's parent shows its
\* children.
Open(d) ==
  \A a \in Up(items, d, Len(items)) :
    (a = ret.item \/ a \in Descendants(items, ret.item)) => items[a].DisplayChildren

AllDisplayed == \A i \in DOMAIN items : items[i].Display

\* Whether the items form trees: every item is the parent of the items it
\* lists as its children.
TreeShaped ==
  \A i \in DOMAIN items :
    \A k \in 1 .. Len(items[i].Children) : items[items[i].Children[k]].Parent = i

\* Whether the last call was a Render that returned, on trees whose items
\* are all displayed.
RenderedAllDisplayed ==
  ret.op = "Render" /\ ret.err = NoError /\ AllDisplayed /\ TreeShaped

\* C8 as stated: on a tree whose items are all displayed, the output of a
\* Render with depth budget k has a list item for exactly the descendants of
\* the root at relative depth 1..k (for all of them with a nil budget), and
\* is empty for k = 0.
C8_DepthBudgetAsStated ==
  RenderedAllDisplayed
    => /\ (ropts.Depth = Ptr(0)) => ret.val = <<>>
       /\ Rendered = {d \in Descendants(items, ret.item) : WithinBudget(RelDepth(d))}

\* C8, amended: on a tree whose items are all displayed, the output of a
\* Render with depth budget k has exactly one list item for each descendant
\* of the root at relative depth 1..k (any depth with a nil budget) whose
\* ancestors, from the root down to its parent, all have DisplayChildren set,
\* and for no other item; for k = 0 the output is empty.
C8_DepthBudget ==
  RenderedAllDisplayed
    => /\ (ropts.Depth = Ptr(0)) => ret.val = <<>>
       /\ Rendered = {d \in Descendants(items, ret.item) :
                        WithinBudget(RelDepth(d)) /\ Open(d)}
       /\ Cardinality(ListItems) = Cardinality(Rendered)

\* A budget of 1 on a menu with grandchildren, every item showing its
\* children: the children are rendered and the grandchildren are not.
C8_Witness ==
  /\ RenderedAllDisplayed
  /\ ropts.Depth = Ptr(1)
  /\ \A i \in DOMAIN items : items[i].DisplayChildren
  /\ \E d \in Descendants(items, ret.item) : RelDepth(d) = 2
  /\ Rendered = {d \in Descendants(items, ret.item) : RelDepth(d) = 1}

\* C9: a rendered item carries the current class iff IsCurrent holds for it,
\* the ancestor class iff IsCurrent does not hold and IsAncestor, asked with
\* the matching-depth budget renderItem received, does; so never both.
C9_CurrentOrAncestor ==
  \A k \in ListItems :
    LET tok == ret.val[k]
        cur == Status(tok.item)
        anc == IsAncestor(items, EmptyMap, voters, votes, tok.item,
                          tok.MatchingDepth, 1).val
    IN /\ ~(ropts.CurrentClass \in ClassesOf(k) /\ ropts.AncestorClass \in ClassesOf(k))
       /\ ropts.CurrentClass \in ClassesOf(k) <=> cur
       /\ ropts.AncestorClass \in ClassesOf(k) <=> (~cur /\ anc)

\* A rendered item that is current and has a current child within the
\* matching budget carries the current class alone.
C9_Witness ==
  \E k \in ListItems :
    LET tok == ret.val[k]
    IN /\ Status(tok.item)
       /\ IsAncestor(items, EmptyMap, voters, votes, tok.item, tok.MatchingDepth, 1).val
       /\ ropts.CurrentClass \in ClassesOf(k)
       /\ ropts.AncestorClass \notin ClassesOf(k)

\* C10 as stated: a rendered item carries the branch class when the depth
\* budget it was rendered with is not exhausted, it has a displayed child and
\* its DisplayChildren flag is set, and the leaf class in every other case;
\* so exactly one of the two.
C10_BranchOrLeaf ==
  \A k \in ListItems :
    LET tok == ret.val[k]
        branch == /\ ~(tok.Depth # Nil /\ Deref(tok.Depth) <= 0)
                  /\ HasChildren(items, tok.item)
                  /\ items[tok.item].DisplayChildren
    IN /\ ropts.BranchClass \in ClassesOf(k) <=> branch
       /\ ropts.LeafClass \in ClassesOf(k) <=> ~branch

\* The siblings of i that stand before / after it in its parent's Children.
Before(h, i) ==
  LET sib == h[h[i].Parent].Children
  IN {sib[k] : k \in {k \in 1 .. Len(sib) : \E j \in k + 1 .. Len(sib) : sib[j] = i}}

After(h, i) ==
  LET sib == h[h[i].Parent].Children
  IN {sib[k] : k \in {k \in 1 .. Len(sib) : \E j \in 1 .. k - 1 : sib[j] = i}}

\* C11 as stated: for an item with a parent, ActsLikeFirst is true iff the
\* item is displayed and no sibling before it in the parent's sequence is
\* displayed, and ActsLikeLast is true iff it is displayed and no sibling
\* after it is displayed; both are false for a root and for a hidden item.
C11_ActsLikeFirstLast ==
  /\ ret.op = "ActsLikeFirst" =>
       ret.val = (/\ items[ret.item].Parent # NilItem
                  /\ items[ret.item].Display
                  /\ \A s \in Before(items, ret.item) : ~items[s].Display)
  /\ ret.op = "ActsLikeLast" =>
       ret.val = (/\ items[ret.item].Parent # NilItem
                  /\ items[ret.item].Display
                  /\ \A s \in After(items, ret.item) : ~items[s].Display)

\* C11, where the siblings of the item carry names of their own: the
\* statement above holds.
C11_DistinctNames ==
  (/\ ret.op \in {"ActsLikeFirst", "ActsLikeLast"}
   /\ items[ret.item].Parent # NilItem
   /\ \A s \in Before(items, ret.item) \cup After(items, ret.item) :
        items[s].Name # items[ret.item].Name)
  => C11_ActsLikeFirstLast

\* Siblings [A hidden, B, C]: B acts like first, C does not.
C11_Witness ==
  /\ ret.op = "ActsLikeFirst"
  /\ ret.val = TRUE
  /\ \E s \in Before(items, ret.item) : ~items[s].Display
  /\ \E s \in After(items, ret.item) : items[s].Display

\* What can be read through item i without following Parent or Children.
Fields(h, i) ==
  [Name |-> h[i].Name, URI |-> h[i].URI, Position |-> h[i].Position,
   Display |-> h[i].Display, DisplayChildren |-> h[i].DisplayChildren,
   Current |-> h[i].Current, Bags |-> [b \in BagNames |-> Bag(h, i, b)]]

\* The trees under a and b have the same shape, order and field values.
RECURSIVE SameTree(_, _, _)
SameTree(h, a, b) ==
  /\ Fields(h, a) = Fields(h, b)
  /\ Len(h[a].Children) = Len(h[b].Children)
  /\ \A k \in 1 .. Len(h[a].Children) :
       SameTree(h, h[a].Children[k], h[b].Children[k])

\* C12 as stated: x.Copy() returns a new root whose tree has the shape, order
\* and field values of x's, made of new items only, and leaves every item that
\* existed as it was; and from then on a change made to an item (a child
\* added, an entry added to a bag, the forced Current set) cannot be read
\* through any item of another tree, so the copy and x are independent.
C12_CopyIndependent ==
  [][/\ (ret'.op = "Copy" /\ ret'.err = NoError) =>
          /\ items'[ret'.val].Parent = NilItem
          /\ SameTree(items', ret'.item, ret'.val)
          /\ ({ret'.val} \cup Descendants(items', ret'.val)) \cap DOMAIN items = {}
          /\ \A j \in DOMAIN items : items'[j] = items[j]
     /\ ret'.op \in {"Option", "AddChildValue", "SetCurrent"} =>
          \A j \in DOMAIN items :
            Root(items, j) # Root(items, ret'.item) =>
              /\ Fields(items', j) = Fields(items, j)
              /\ items'[j].Parent = items[j].Parent
              /\ items'[j].Children = items[j].Children]_vars

\* C12, the part about the copy itself and about children and the forced
\* Current: this holds.
C12_CopyShape ==
  [][/\ (ret'.op = "Copy" /\ ret'.err = NoError) =>
          /\ items'[ret'.val].Parent = NilItem
          /\ SameTree(items', ret'.item, ret'.val)
          /\ ({ret'.val} \cup Descendants(items', ret'.val)) \cap DOMAIN items = {}
          /\ \A j \in DOMAIN items : items'[j] = items[j]
     /\ ret'.op \in {"AddChildValue", "SetCurrent"} =>
          \A j \in DOMAIN items :
            Root(items, j) # Root(items, ret'.item) =>
              /\ Fields(items', j) = Fields(items, j)
              /\ items'[j].Parent = items[j].Parent
              /\ items'[j].Children = items[j].Children]_vars

\* A copy of a tree with a child has been taken and an entry was then added
\* to a bag of the copy.
C12_Witness ==
  /\ ret.op = "Option"
  /\ \E x \in DOMAIN items :
       /\ x # ret.item
       /\ items[x].Children # <<>>
       /\ Root(items, x) # Root(items, ret.item)
       /\ SameTree(items, x, ret.item)

\* Whether the k-th mutator of the list fails when NewItem reaches it, and
\* with which error: a caller's failing option, or WithChild of an item that
\* has a parent by then.
Fails(h, opts, k) ==
  \/ opts[k].kind = "Failing"
  \/ /\ opts[k].kind = "WithChild"
     /\ \/ h[opts[k].c].Parent # NilItem
        \/ \E j \in 1 .. k - 1 : opts[j].kind = "WithChild" /\ opts[j].c = opts[k].c

ErrorOf(opt) ==
  IF opt.kind = "Failing" THEN opt.e ELSE ErrItemBelongsToAnotherMenu

\* The mutators of the list that run: all of them, or those up to the first
\* failing one.
Ran(h, opts) ==
  {k \in 1 .. Len(opts) : \A j \in 1 .. k - 1 : ~Fails(h, opts, j)}

\* The places of the mutators of a kind in the list, and the last of them
\* (0 when there is none).
Places(opts, kind) == {k \in 1 .. Len(opts) : opts[k].kind = kind}

LastOf(opts, kind) ==
  IF Places(opts, kind) = {} THEN 0
  ELSE CHOOSE k \in Places(opts, kind) : \A j \in Places(opts, kind) : j <= k

\* The mutator that replaces bag b, and the one that writes an entry into it.
SetKind(b) == "With" \o b
PutKind(b) == IF b = "Extras" THEN "WithExtra" ELSE "With" \o SubSeq(b, 1, Len(b) - 1)

\* Bag b after the mutators of the list in their order: the last map given
\* for it (the empty map when none was), with the entries written after that,
\* a later entry for a name replacing an earlier one.
BagAfter(opts, b) ==
  LET p == LastOf(opts, SetKind(b))
      base == IF p = 0 \/ opts[p].m = Nil THEN EmptyMap ELSE Deref(opts[p].m)
      puts == {k \in Places(opts, PutKind(b)) : k > p}
      last(x) == CHOOSE k \in puts :
                   opts[k].k = x /\ \A j \in puts : opts[j].k = x => j <= k
  IN [x \in DOMAIN base \cup {opts[k].k : k \in puts} |->
        IF \E k \in puts : opts[k].k = x THEN opts[last(x)].v ELSE base[x]]

\* NewItem's result for the list it was given: the defaults with the mutators
\* applied in order when none fails, else no item, the first failing mutator's
\* error, and no trace of the mutators after it.
NewItemContract ==
  LET opts == ret'.arg
      n == Len(items) + 1
      failing == {k \in 1 .. Len(opts) : Fails(items, opts, k)}
      ran == Ran(items, opts)
  IN /\ \A c \in DOMAIN items :
          /\ items'[c].Children = items[c].Children
          /\ items'[c].Parent =
               IF /\ items[c].Parent = NilItem
                  /\ \E k \in ran : opts[k].kind = "WithChild" /\ opts[k].c = c
               THEN n ELSE items[c].Parent
     /\ failing = {} =>
          /\ ret'.err = NoError
          /\ ret'.val = n
          /\ items'[n].Display =
               IF LastOf(opts, "WithDisplay") = 0 THEN TRUE
               ELSE opts[LastOf(opts, "WithDisplay")].v
          /\ items'[n].DisplayChildren
          /\ items'[n].Current =
               IF LastOf(opts, "WithCurrent") = 0 THEN Nil
               ELSE opts[LastOf(opts, "WithCurrent")].p
          /\ items'[n].Parent =
               IF LastOf(opts, "WithParent") = 0 THEN NilItem
               ELSE opts[LastOf(opts, "WithParent")].parent
          /\ items'[n].Label =
               IF LastOf(opts, "WithLabel") = 0 THEN ""
               ELSE opts[LastOf(opts, "WithLabel")].label
          /\ Len(items'[n].Children) = Cardinality(Places(opts, "WithChild"))
          /\ \A j \in 1 .. Len(items'[n].Children) :
               \E k \in Places(opts, "WithChild") :
                 /\ opts[k].c = items'[n].Children[j]
                 /\ Cardinality({m \in Places(opts, "WithChild") : m <= k}) = j
          /\ \A b \in BagNames : Bag(items', n, b) = BagAfter(opts, b)
     /\ failing # {} =>
          /\ ret'.val = NilItem
          /\ ret'.err = ErrorOf(opts[CHOOSE k \in failing : \A j \in failing : k <= j])

\* C13 as stated: NewItem with no failing mutator returns an item with
\* Display and DisplayChildren set, no parent, no children and five empty
\* bags, changed by the mutators in the given order; when the k-th mutator
\* fails NewItem returns no item and that mutator's error, and the mutators
\* after the k-th are not run.
C13_NewItem == [][ret'.op = "NewItemWith" => NewItemContract]_vars

\* C13 for the lists in which no WithCurrent(&b) is reached and no entry is
\* written into a map after the nil map was given for it: this holds.
C13_NewItemNoForcedCurrent ==
  [][(/\ ret'.op = "NewItemWith"
      /\ \A k \in Ran(items, ret'.arg) :
           /\ ~(ret'.arg[k].kind = "WithCurrent" /\ ret'.arg[k].p # Nil)
           /\ \A b \in BagNames :
                ret'.arg[k].kind = PutKind(b) =>
                  \A j \in 1 .. k - 1 :
                    (ret'.arg[j].kind = SetKind(b) /\ ret'.arg[j].m = Nil)
                      => \E l \in j + 1 .. k - 1 :
                           ret'.arg[l].kind = SetKind(b) /\ ret'.arg[l].m # Nil)
     => NewItemContract]_vars

\* NewItem was given two mutators that fail, with different errors, and a
\* WithChild after them.
C13_Witness ==
  /\ ret.op = "NewItemWith"
  /\ ret.val = NilItem
  /\ \E j, k \in 1 .. Len(ret.arg) :
       /\ j < k
       /\ ret.arg[j].kind = "Failing" /\ ret.arg[k].kind = "Failing"
       /\ ret.arg[j].e # ret.arg[k].e
       /\ ret.err = ret.arg[j].e
  /\ \E k \in 1 .. Len(ret.arg) : ret.arg[k].kind = "WithChild"

\* The sequence t holds the elements of s, each as often as s does.
IsPermutation(s, t) ==
  /\ Len(s) = Len(t)
  /\ \A x \in {s[k] : k \in 1 .. Len(s)} \cup {t[k] : k \in 1 .. Len(t)} :
       Cardinality({k \in 1 .. Len(s) : s[k] = x})
         = Cardinality({k \in 1 .. Len(t) : t[k] = x})

\* What C14 says of one call x.ReorderChildren(): the children are the same
\* items, each once, with their Parent pointers, in non-decreasing Position
\* order; and a call that follows another leaves the sequence as it was.
ReorderContract ==
  LET x == ret'.item
  IN /\ IsPermutation(items[x].Children, items'[x].Children)
     /\ \A j \in DOMAIN items : items'[j].Parent = items[j].Parent
     /\ \A j, k \in 1 .. Len(items'[x].Children) :
          j < k => items'[items'[x].Children[j]].Position
                     <= items'[items'[x].Children[k]].Position
     /\ (ret.op = "ReorderChildren" /\ ret.item = x) =>
          items'[x].Children = items[x].Children

\* C14 as stated: after x.ReorderChildren() the children of x are a
\* permutation of the children before, Parent pointers unchanged, in
\* non-decreasing Position order, and a second call changes nothing.
C14_Reorder == [][ret'.op = "ReorderChildren" => ReorderContract]_vars

\* C14 where the difference of any two positions fits the integer width: this
\* holds.
C14_ReorderNoOverflow ==
  [][(/\ ret'.op = "ReorderChildren"
      /\ \A a, b \in DOMAIN items :
           items[a].Position - items[b].Position \in MinInt .. MaxInt)
     => ReorderContract]_vars

\* Three children with two equal positions were put in order: the sequence
\* changed.
C14_Witness ==
  /\ ret.op = "ReorderChildren"
  /\ Len(items[ret.item].Children) >= 3
  /\ items[ret.item].Children # <<2, 3, 4>>
  /\ \E j, k \in 2 .. 4 : j # k /\ items[j].Position = items[k].Position
  /\ \E j, k \in 2 .. 4 : items[j].Position < items[k].Position

\* C15: in a tree built with NewItem and AddChild, Level is 0 for an item
\* without parent and the parent's Level plus one for a child, which makes it
\* the number of the item's proper ancestors; and Root is, among the item and
\* its ancestors, the one item that has no parent.
C15_LevelRoot ==
  /\ ret.op = "Level" =>
       /\ ret.val = Cardinality(Up(items, ret.item, Len(items)))
       /\ items[ret.item].Parent = NilItem => ret.val = 0
       /\ items[ret.item].Parent # NilItem =>
            ret.val = Cardinality(Up(items, items[ret.item].Parent, Len(items))) + 1
  /\ ret.op = "Root" =>
       /\ ret.val \in {ret.item} \cup Up(items, ret.item, Len(items))
       /\ \A a \in {ret.item} \cup Up(items, ret.item, Len(items)) :
            items[a].Parent = NilItem <=> a = ret.val

\* Level was asked of a grandchild.
C15_Witness ==
  /\ ret.op = "Level"
  /\ ret.val >= 2
  /\ items[ret.item].Parent # NilItem
  /\ items[items[ret.item].Parent].Parent # NilItem

\* Whether a Render call given these options clears the matcher: the last
\* WithClearMatcher among them decides, else the renderer's own setting.
ClearSet(options) ==
  IF Places(options, "WithClearMatcher") = {} THEN ropts.ClearMatcher
  ELSE options[LastOf(options, "WithClearMatcher")].v

\* C16: a Render with clear-matcher set (the default) that returns leaves the
\* cache empty, and a Render that finds the cache empty gives the current class to the
\* items that are current under the request context of this call, whatever
\* an earlier pass decided; a Render with clear-matcher unset removes no
\* entry, and the entries of the items it rendered are in the cache when it
\* returns.
C16_ClearMatcher ==
  [][ret'.op = "Render" =>
       /\ (ClearSet(ret'.arg.options) /\ ret'.err = NoError) => cache' = EmptyMap
       /\ cache = EmptyMap =>
            \A k \in 1 .. Len(ret'.val) :
              ret'.val[k].typ = "li" =>
                (\E j \in 1 .. Len(ret'.val[k].class) :
                   ret'.val[k].class[j] = ropts.CurrentClass)
                  <=> ChainVerdict(voters, votes'[ret'.val[k].item])
       /\ ~ClearSet(ret'.arg.options) =>
            /\ \A i \in DOMAIN cache : i \in DOMAIN cache' /\ cache'[i] = cache[i]
            /\ \A k \in 1 .. Len(ret'.val) :
                 ret'.val[k].typ = "li" => ret'.val[k].item \in DOMAIN cache'
     ]_vars

\* A clearing Render has found the cache empty, rendered a current item and
\* left the cache empty.
C16_Witness ==
  /\ ret.op = "Render" /\ ret.err = NoError
  /\ ClearSet(ret.arg.options)
  /\ ret.arg.found = EmptyMap
  /\ cache = EmptyMap
  /\ \E k \in ListItems : ropts.CurrentClass \in ClassesOf(k)
  /\ \E k \in ListItems : ropts.CurrentClass \notin ClassesOf(k)

\* C17: Render leaves the renderer's own options as they were, Depth,
\* MatchingDepth and Extras included, and a Render that repeats the call
\* before it (same item, same options, same cache found, same tree and
\* request) produces the same output.
C17_PrivateOptions ==
  [][ret'.op = "Render" =>
       /\ ropts' = ropts
       /\ (ret.op = "Render" /\ ret.item = ret'.item /\ ret.arg = ret'.arg) =>
            ret'.val = ret.val
     ]_vars

\* A Render of a renderer with both budgets was given an extra and rendered a
\* nested list.
C17_Witness ==
  /\ ret.op = "Render"
  /\ ropts.Depth # Nil /\ ropts.MatchingDepth # Nil
  /\ \E k \in 1 .. Len(ret.arg.options) : ret.arg.options[k].kind = "RendererWithExtra"
  /\ Cardinality({k \in 1 .. Len(ret.val) : ret.val[k].typ = "ul"}) >= 2
  /\ Deref(ropts.Extras) = EmptyMap

\* The items the tags of the last Render's output stand for, and the items
\* that opened a nested list.
Emitted == {ret.val[k].item : k \in 1 .. Len(ret.val)}
Lists == {ret.val[k].item : k \in {j \in 1 .. Len(ret.val) : ret.val[j].typ = "ul"}}

\* C18 as stated: no item whose Display flag is false, and no descendant of
\* such an item, produces a list item, and a parent none of whose children is
\* displayed produces no list.
C18_HiddenAsStated ==
  ret.op = "Render" =>
    /\ \A i \in DOMAIN items :
         ~items[i].Display =>
           ({i} \cup Descendants(items, i)) \cap Rendered = {}
    /\ \A p \in DOMAIN items :
         (\A k \in 1 .. Len(items[p].Children) : ~items[items[p].Children[k]].Display)
           => p \notin Lists

\* C18, for the items below the item handed to Render: a hidden item and its
\* descendants produce no tag at all, whatever their flags, their current
\* status and the budgets; and no item, the rendered one included, opens a
\* list when none of its children is displayed.
C18_Hidden ==
  ret.op = "Render" =>
    /\ \A i \in Descendants(items, ret.item) :
         ~items[i].Display =>
           ({i} \cup Descendants(items, i)) \cap Emitted = {}
    /\ \A p \in DOMAIN items :
         (\A k \in 1 .. Len(items[p].Children) : ~items[items[p].Children[k]].Display)
           => p \notin Lists

\* A hidden item below the rendered one has a displayed child that is
\* current.
C18_Witness ==
  /\ ret.op = "Render"
  /\ \E i \in Descendants(items, ret.item) :
       /\ ~items[i].Display
       /\ \E d \in Descendants(items, i) : items[d].Display /\ Status(d)

\* The item of the given name.
ItemNamed(name) == CHOOSE i \in DOMAIN items : items[i].Name = name

\* The class names the first list item of item i carries in the output out.
ClassesIn(out, i) ==
  LET k == CHOOSE k \in 1 .. Len(out) : out[k].typ = "li" /\ out[k].item = i
  IN {out[k].class[j] : j \in 1 .. Len(out[k].class)}

\* C19: the example's root, rendered with the default options right after
\* root.ReorderChildren() for the request path /blog/article-test-1, lists
\* home, blog, about in that order at the top level; article1 carries the
\* current class, blog the ancestor class and not the current class, home and
\* about neither.
C19_Example ==
  [][(/\ items = ReorderChildren(Example.h, Example.item)
      /\ ret'.op = "Render" /\ ret'.item = ItemNamed("root")
      /\ ret'.arg.options = <<>>
      /\ votes = VotesFor(items, ExamplePath))
     => LET out == ret'.val
            top == SelectSeq(out, LAMBDA t : t.typ = "li"
                                    /\ items[t.item].Parent = ItemNamed("root"))
        IN /\ [k \in 1 .. Len(top) |-> items[top[k].item].Name]
                = <<"home", "blog", "about">>
           /\ ropts.CurrentClass \in ClassesIn(out, ItemNamed("article1"))
           /\ ropts.AncestorClass \in ClassesIn(out, ItemNamed("blog"))
           /\ ropts.CurrentClass \notin ClassesIn(out, ItemNamed("blog"))
           /\ \A n \in {"home", "about"} :
                ClassesIn(out, ItemNamed(n))
                  \cap {ropts.CurrentClass, ropts.AncestorClass} = {}
     ]_vars

\* The reordered example menu was rendered for /blog/article-test-1 with the
\* default options: four list items came out.
C19_Witness ==
  /\ ret.op = "Render"
  /\ ret.item = ItemNamed("root")
  /\ ret.arg.options = <<>>
  /\ votes = VotesFor(items, ExamplePath)
  /\ items[ret.item].Children = <<ItemNamed("home"), ItemNamed("blog"), ItemNamed("about")>>
  /\ Cardinality(ListItems) = 4

\* C20 as stated: a pointer-taking option applied to a freshly constructed
\* target completes normally; with a pointer it sets the field to the value
\* pointed to, with nil it sets the field to nil.  WithDepth and
\* WithMatchingDepth on the Options of NewOptions(), WithCurrent on the item
\* of NewItem.
C20_PointerOptions ==
  /\ (ret.op = "NewOptions" /\ Len(ret.arg) = 1
        /\ ret.arg[1].kind \in {"WithDepth", "WithMatchingDepth"}) =>
       /\ ret.err = NoError
       /\ ret.arg[1].kind = "WithDepth" =>
            ret.val.Depth = IF ret.arg[1].p = Nil THEN Nil
                            ELSE Ptr(Deref(ret.arg[1].p))
       /\ ret.arg[1].kind = "WithMatchingDepth" =>
            ret.val.MatchingDepth = IF ret.arg[1].p = Nil THEN Nil
                                    ELSE Ptr(Deref(ret.arg[1].p))
  /\ (ret.op = "NewItemWith" /\ Len(ret.arg) = 1
        /\ ret.arg[1].kind = "WithCurrent") =>
       /\ ret.err = NoError
       /\ ret.val # NilItem
       /\ items[ret.val].Current = IF ret.arg[1].p = Nil THEN Nil
                                   ELSE Ptr(Deref(ret.arg[1].p))

\* C20, the nil arguments, and the pointer arguments on a target whose field
\* was set before (SetDepth, SetMatchingDepth): this holds.
C20_NilOrSet ==
  (ret.op = "NewOptions" /\ ret.arg # <<>>) =>
    LET last == ret.arg[Len(ret.arg)]
        before == NewOptions(SubSeq(ret.arg, 1, Len(ret.arg) - 1))
    IN /\ (last.kind = "WithDepth" /\ last.p = Nil /\ ~Panics(before)) =>
            ret.err = NoError /\ ret.val.Depth = Nil
       /\ (last.kind = "WithMatchingDepth" /\ last.p = Nil /\ ~Panics(before)) =>
            ret.err = NoError /\ ret.val.MatchingDepth = Nil
       /\ (last.kind = "WithDepth" /\ last.p # Nil /\ ~Panics(before)
             /\ before.Depth # Nil) =>
            ret.err = NoError /\ Deref(ret.val.Depth) = Deref(last.p)
       /\ (last.kind = "WithMatchingDepth" /\ last.p # Nil /\ ~Panics(before)
             /\ before.MatchingDepth # Nil) =>
            ret.err = NoError /\ Deref(ret.val.MatchingDepth) = Deref(last.p)

\* WithDepth(&d) was applied to the Options of NewOptions().
C20_Witness ==
  /\ ret.op = "NewOptions"
  /\ ret.arg = <<WithDepth(Ptr(1))>>

\* ---------------------------------------------------------------------- C21
\* An Options and what NewOptions(o.Slice()...) makes of it agree in every
\* field: pointers by what they point to, maps by their entries, a nil
\* pointer or map only with a nil one.
SameOptions(a, b) ==
  /\ ~Panics(a) /\ ~Panics(b)
  /\ \A f \in DOMAIN a : a[f] = b[f]

\* C21: applying o.Slice() to a fresh NewOptions() completes normally and
\* yields an Options equal to o in every field, for every Options value o.
C21_SliceRoundTrip ==
  ret.op = "Slice" => ret.err = NoError /\ SameOptions(ret.val, ropts)

\* The part of C21 the code keeps: with both budgets nil, CurrentAsLink true
\* and a non-nil Extras, the round trip is the identity.
C21_SliceNilBudgets ==
  (/\ ret.op = "Slice"
   /\ ropts.Depth = Nil /\ ropts.MatchingDepth = Nil
   /\ ropts.CurrentAsLink /\ ropts.Extras # Nil)
    => ret.err = NoError /\ SameOptions(ret.val, ropts)

C21_Witness ==
  /\ ret.op = "Slice"
  /\ ropts.Depth = Nil /\ ropts.MatchingDepth = Nil
  /\ ropts.CurrentAsLink /\ ropts.Extras = Ptr("k" :> AnyString("v"))
  /\ ropts.CurrentClass = "x" /\ ~ropts.ClearMatcher
  /\ SameOptions(ret.val, ropts)

\* ---------------------------------------------------------------------- C22
\* What a search with a budget leaves behind: the counter it was given, the
\* counter as it left it, and the invocations that inspected children.
BudgetGiven == Deref(ret.arg)
BudgetLeft == Deref(effect.depth)

\* The accounting of one search over the shared counter.
CounterAccount ==
  /\ effect.depth # Nil
  /\ ~effect.diverged
  /\ BudgetLeft >= 0
  /\ BudgetLeft = BudgetGiven - effect.calls
  /\ BudgetGiven = 0 => (~ret.val /\ effect.calls = 0)

\* C22: with a non-nil budget the invocations of one search share one
\* counter: an invocation that finds it at 0 returns false and leaves it, every
\* other one takes exactly 1 off before it inspects children, so the counter
\* never becomes negative and ends as the initial value minus the number of
\* invocations that inspected children, over the whole search and not per
\* path.
C22_SharedCounter ==
  (ret.op = "IsAncestor" /\ ret.arg # Nil) => CounterAccount

\* A search that spends its budget across two branches: the item's first
\* child takes the last unit, and its second child is refused although it
\* lies no deeper than the first.
C22_Witness ==
  /\ ret.op = "IsAncestor" /\ ret.arg = Ptr(2)
  /\ Len(items[ret.item].Children) = 2
  /\ \A k \in 1 .. 2 : items[items[ret.item].Children[k]].Children = <<>>
  /\ ~ret.val
  /\ effect.calls = 2 /\ effect.depth = Ptr(0)

\* ---------------------------------------------------------------------- C23
\* The list item of item i in the last Render's output, and a budget one
\* level smaller.
TokenOf(i) == ret.val[CHOOSE k \in ListItems : ret.val[k].item = i]
OneLess(p) == IF p = Nil THEN Nil ELSE Ptr(Deref(p) - 1)

\* The rendered items whose parent was rendered too, with a matching-depth
\* budget above 0.
Descents ==
  {i \in Rendered :
     /\ items[i].Parent \in Rendered
     /\ TokenOf(items[i].Parent).MatchingDepth # Nil
     /\ Deref(TokenOf(items[i].Parent).MatchingDepth) > 0}

\* C23: every child is rendered with budgets exactly one level smaller than
\* those its parent was rendered with (depth D - 1 and matching depth M - 1
\* for a parent rendered with D and M > 0), whatever the parent's IsAncestor
\* search visited and whatever its siblings are.
C23_OneLevelSmaller ==
  \A i \in Descents :
    /\ TokenOf(i).Depth = OneLess(TokenOf(items[i].Parent).Depth)
    /\ TokenOf(i).MatchingDepth = OneLess(TokenOf(items[i].Parent).MatchingDepth)

\* What the code keeps of C23: the depth budget goes down one level from
\* parent to child, and so does the matching-depth budget below a parent
\* that is current (for which no IsAncestor search runs); siblings receive
\* the same budgets.
C23_DepthOneLevelSmaller ==
  /\ \A i \in Descents :
       /\ TokenOf(i).Depth = OneLess(TokenOf(items[i].Parent).Depth)
       /\ Status(items[i].Parent)
            => TokenOf(i).MatchingDepth = OneLess(TokenOf(items[i].Parent).MatchingDepth)
  /\ \A i, j \in Descents :
       items[i].Parent = items[j].Parent
         => TokenOf(i).MatchingDepth = TokenOf(j).MatchingDepth

\* A current parent rendered with matching depth 2 and its child with 1.
C23_Witness ==
  \E i \in Descents :
    /\ Status(items[i].Parent)
    /\ TokenOf(items[i].Parent).MatchingDepth = Ptr(2)
    /\ TokenOf(i).MatchingDepth = Ptr(1)
    /\ TokenOf(i).Depth = OneLess(TokenOf(items[i].Parent).Depth)

\* ---------------------------------------------------------------------- C24
\* A goroutine is in a call, and it is waiting for the lock.
InCall(t) == pc[t] # "idle"
Waits(t) ==
  \/ pc[t] = "ic_rlock" /\ ~CanRLock(mu)
  \/ pc[t] \in {"ic_lock", "cl_lock"} /\ ~CanLock(mu)
  \/ pc[t] \in {"ic_locking", "cl_locking"} /\ ~CanAcquire(mu, t)

\* Some goroutine is in a call and every goroutine that is in one waits.
Deadlocked == (\E t \in Threads : InCall(t)) /\ \A t \in Threads : InCall(t) => Waits(t)

\* A goroutine asks for the exclusive lock while it holds the shared one.
Upgrades(t) ==
  pc[t] \in {"ic_lock", "ic_locking", "cl_lock", "cl_locking"} /\ t \in mu.readers

\* C24: with goroutines calling IsCurrent, IsAncestor and Clear on one
\* CoreMatcher, no reachable state is a deadlock, no call waits for the
\* exclusive lock while it holds the shared lock, and under fair scheduling
\* every call eventually returns.
C24_CallsReturn ==
  /\ [](~Deadlocked)
  /\ [](\A t \in Threads : ~Upgrades(t))
  /\ \A t \in Threads : InCall(t) ~> ~InCall(t)

\* An IsCurrent call that has given up the shared lock waits for the exclusive
\* one while another goroutine still holds the shared lock.
C24_Witness ==
  \E t, u \in Threads :
    /\ t # u
    /\ pc[t] = "ic_locking" /\ mu.pending = t /\ t \notin mu.readers
    /\ mu.readers = {u}
    /\ Waits(t)

\* ---------------------------------------------------------------------- C25
\* The walk up the Parent pointers from i meets an item without a parent
\* within n steps (a walk over a heap of n items that takes longer has met an
\* item twice and never ends).
RECURSIVE WalkEnds(_, _, _)
WalkEnds(h, i, n) ==
  IF h[i].Parent = NilItem THEN TRUE
  ELSE IF n = 0 THEN FALSE
  ELSE WalkEnds(h, h[i].Parent, n - 1)

Acyclic(h) == \A i \in DOMAIN h : WalkEnds(h, i, Len(h))

\* C25: after any sequence of NewItem and AddChild calls, also ones that
\* attach a parentless item under itself or under one of its descendants,
\* the parent relation is acyclic: every walk up the Parent pointers ends at
\* an item with Parent = nil (so Level, Root, IsAncestor with a nil budget and
\* Render terminate).
C25_Acyclic == Acyclic(items)

\* What holds of AddChild: an attach whose child is neither the target nor
\* one of the target's ancestors keeps an acyclic heap acyclic.
C25_AcyclicKept ==
  [][(/\ ret'.op = "AddChild"
      /\ Acyclic(items)
      /\ ret'.arg # ret'.item
      /\ ret'.arg \notin Up(items, ret'.item, Len(items)))
       => Acyclic(items')]_vars

\* An accepted attach of a parentless item under its own child.
C25_Witness ==
  /\ ret.op = "AddChild" /\ ret.err = NoError
  /\ ret.arg # ret.item
  /\ items[ret.item].Parent = ret.arg
  /\ items[ret.arg].Parent = ret.item
  /\ ~Acyclic(items)

\* ---------------------------------------------------------------------- C26
\* How often c occurs in the Children list of p.
Occurrences(h, p, c) ==
  Cardinality({k \in 1 .. Len(h[p].Children) : h[p].Children[k] = c})

\* Parent pointers and Children lists tell the same: c has Parent = p iff c
\* is in p.Children, where it occurs once, and it is in no other list.
Agree(h) ==
  \A c \in DOMAIN h : \A p \in DOMAIN h :
    /\ h[c].Parent = p <=> Occurrences(h, p, c) > 0
    /\ Occurrences(h, p, c) <= 1

\* A call whose option list has a WithChildren after an option that gave the
\* item a child.
Regives(options) ==
  \E j, k \in 1 .. Len(options) :
    /\ j < k
    /\ options[j].kind \in {"WithChild", "WithChildren"}
    /\ options[k].kind = "WithChildren"

\* C26: after any sequence of NewItem, AddChild, WithChild, WithChildren,
\* Copy and ReorderChildren, an item c has Parent = p iff c occurs in
\* p.Children, and it occurs there exactly once and in no other item's
\* Children.
C26_ParentsAndChildrenAgree == Agree(items)

\* What holds: a call keeps the agreement unless its options hand the new
\* item children and then run WithChildren, which empties the list again.
C26_AgreementKept ==
  [][(/\ Agree(items)
      /\ ret'.op \in {"NewItem", "AddChildValue"} => ~Regives(ret'.arg))
       => Agree(items')]_vars

\* A copy of a parent and its child, in a heap that agrees.
C26_Witness ==
  /\ ret.op = "Copy" /\ ret.err = NoError
  /\ Len(items[ret.val].Children) = 1
  /\ items[items[ret.val].Children[1]].Parent = ret.val
  /\ items[ret.val].Children # items[ret.item].Children
  /\ Agree(items)

\* ---------------------------------------------------------------------- C27
\* The items that exist before the step have the Parent and the Children
\* they had.
OldItemsKept ==
  \A i \in DOMAIN items :
    /\ items'[i].Parent = items[i].Parent
    /\ items'[i].Children = items[i].Children

\* A construction that fails: NewItem, or AddChild of a value that is not an
\* item, returns an error.
FailedConstruction ==
  ret'.op \in {"NewItem", "AddChildValue"} /\ ret'.err # NoError

\* The call's options name an item to be attached.
GivesChild(options) ==
  \E k \in 1 .. Len(options) :
    \/ options[k].kind = "WithChild"
    \/ options[k].kind = "WithChildren" /\ options[k].cs # <<>>

\* C27: a failed construction has no effect on the items that existed before
\* it: each of them, also one handed to an earlier WithChild or WithChildren
\* of the same call, has the Parent and Children it had before the call (and
\* can still be attached to another parent).
C27_FailureHasNoEffect ==
  [][FailedConstruction => OldItemsKept]_vars

\* What holds: a failed construction whose options name no item to attach
\* leaves every item that existed as it was.
C27_FailureWithoutChildren ==
  [][(FailedConstruction /\ ~GivesChild(ret'.arg)) => OldItemsKept]_vars

\* After NewItem failed behind a WithChild, the item it was given has the
\* discarded item for its parent, and an AddChild of it is refused.
C27_Witness ==
  /\ ret.op = "AddChild" /\ ret.err = ErrItemBelongsToAnotherMenu
  /\ items[ret.arg].Parent # NilItem
  /\ items[items[ret.arg].Parent].Name = "n"
  /\ items[items[ret.arg].Parent].Parent = NilItem
  /\ items[items[ret.arg].Parent].Children = <<ret.arg>>

\* ---------------------------------------------------------------------- C28
\* What a Render of item i for a request of the given path produces when no
\* other pass runs: the matcher's cache is empty when it begins.
Solitary(i, path) ==
  Render(items, EmptyMap, voters, VotesFor(items, path), ropts, i, <<>>).out

\* C28: Render calls that run at the same time on one tree through renderers
\* sharing one CoreMatcher, each for its own request path and with default
\* options, each produce the output a solitary Render for that path would
\* produce, under every interleaving of the passes and their cache clears.
C28_ConcurrentPasses ==
  ret.op = "Render" => ret.val = Solitary(ret.item, ret.arg.path)

\* What holds: a pass that overlapped only with passes for its own path
\* produces the solitary output.
C28_SamePath ==
  (ret.op = "Render" /\ ret.arg.same) => ret.val = Solitary(ret.item, ret.arg.path)

\* Two passes for one path that overlapped, both with the solitary output in
\* which the article is current.
C28_Witness ==
  /\ ret.op = "Render" /\ ret.arg.same /\ ret.arg.path = ExamplePath
  /\ ret.item = Example.item
  /\ \E t \in Threads : pc[t] = "rd_run" /\ loc[t].path = ExamplePath /\ Len(loc[t].log) > 1
  /\ ret.val = Solitary(ret.item, ret.arg.path)
  /\ \E k \in ListItems : "current" \in ClassesOf(k)

\* ---------------------------------------------------------------------- C29
\* The comparator's sign for (a, b) is that of the comparison of the two
\* positions.
SignRight(a, b) ==
  /\ Compare(items, a, b) < 0 <=> items[a].Position < items[b].Position
  /\ Compare(items, a, b) > 0 <=> items[a].Position > items[b].Position

Ascending(s) ==
  \A j, k \in 1 .. Len(s) : j < k => items[s[j]].Position <= items[s[k]].Position

\* C29: for every pair of machine-integer positions, also pairs whose
\* difference does not fit the integer width, the comparator of
\* ReorderChildren is negative iff a.Position < b.Position and positive iff
\* a.Position > b.Position, and ReorderChildren leaves the children in
\* ascending Position order.
C29_ComparatorSign ==
  ret.op = "ReorderChildren"
    => /\ \A a, b \in DOMAIN items : SignRight(a, b)
       /\ Ascending(items[ret.item].Children)

\* What holds: the sign is right for every pair whose difference fits the
\* width, and children whose differences all fit end in ascending order.
C29_SignWhereFits ==
  ret.op = "ReorderChildren"
    => /\ \A a, b \in DOMAIN items :
            (items[a].Position - items[b].Position \in MinInt .. MaxInt)
              => SignRight(a, b)
       /\ (\A a, b \in DOMAIN items :
             items[a].Position - items[b].Position \in MinInt .. MaxInt)
            => Ascending(items[ret.item].Children)

\* The largest and the smallest position side by side after a call: their
\* difference wraps around to -1.
C29_Witness ==
  /\ ret.op = "ReorderChildren"
  /\ \E a, b \in DOMAIN items :
       /\ items[a].Position = MaxInt /\ items[b].Position = MinInt
       /\ Compare(items, a, b) = 0 - 1
       /\ items[ret.item].Children = <<a, b>>

\* ---------------------------------------------------------------------- C30
\* What IsAncestor returns for item i and the given budget in this state:
\* the tree, the forced flags and the voters' answers are those of the state.
Search(i, depth) == IsAncestor(items, cache, voters, votes, i, depth, 1).val

\* The budgets compared: 0 up to one more than the heap has items.
SearchBudgets == 0 .. Len(items) + 1

\* C30: IsAncestor is monotone in its budget: for a fixed tree, fixed forced
\* flags and pure voters, a search that returns true for a budget d returns
\* true for every larger budget and for the nil budget, and with a budget of
\* at least the number of items in the item's subtree it returns what it
\* returns with the nil budget.
C30_Monotone ==
  /\ ret.op = "IsAncestor" => ret.val = Search(ret.item, ret.arg)
  /\ \A i \in DOMAIN items :
       \A d \in SearchBudgets :
         /\ Search(i, Ptr(d))
              => /\ Search(i, Nil)
                 /\ \A e \in SearchBudgets : e > d => Search(i, Ptr(e))
         /\ d >= Size(items, i) => (Search(i, Ptr(d)) <=> Search(i, Nil))

\* A search that returned true with budget 2, for an item under which budget
\* 1 does not reach the current item and whose subtree has more than 2 items.
C30_Witness ==
  /\ ret.op = "IsAncestor" /\ ret.arg = Ptr(2) /\ ret.val
  /\ ~Search(ret.item, Ptr(1))
  /\ Search(ret.item, Nil)
  /\ Size(items, ret.item) > 2

====
